---- MODULE Spec2Model ----
(***************************************************************************)
(* A model of the breadboard device-orchestration firmware:                *)
(*   - SpecStartup : Devices.__init__ (device construction through the     *)
(*                   tolerant factory, chain compilation, event wiring);   *)
(*   - Spec        : the running system (per-device polling loops bound to *)
(*                   the event table, and API.route_requests).             *)
(***************************************************************************)
EXTENDS Integers, Sequences, FiniteSets, TLC

(***************************************************************************)
(* Bounds of the model.                                                    *)
(***************************************************************************)
MaxEntries == 2
MaxChains == 2
MaxSteps == 2
MaxEvents == 2

(***************************************************************************)
(* Configuration universe: the names a configuration document may use.     *)
(***************************************************************************)
CfgNames == <<"fan", "btn", "mtx", "sw">>
ChainNames == <<"c1", "c2", "c3", "c4">>

\* The type a well-formed entry of that name declares.
KindOf(name) ==
    CASE name = "fan" -> "Fan"
      [] name = "btn" -> "ToggleButton"
      [] name = "mtx" -> "Matrix"
      [] name = "sw"  -> "Switch"
      [] OTHER        -> "Fan"

\* "Servo" is a type name no factory is registered for.
CfgTypes(name) == {KindOf(name), "Servo"}

\* A step of a chain: {"device": dev, "action": op}.
StepOptions ==
    { [dev |-> "fan", op |-> "on"],
      [dev |-> "ghost", op |-> "on"],
      [dev |-> "fan", op |-> "nope"] }

\* The single-key tagged action object of an event entry.
ActionOptions ==
    { [kind |-> "device", name |-> "fan", action |-> "on", value |-> "none"],
      [kind |-> "device", name |-> "ghost", action |-> "on", value |-> "none"],
      [kind |-> "device", name |-> "fan", action |-> "nope", value |-> "none"],
      [kind |-> "webhook", name |-> "http://hook:80/x", action |-> "", value |-> "none"],
      [kind |-> "webhook", name |-> "not a url", action |-> "", value |-> "none"],
      [kind |-> "bogus", name |-> "", action |-> "", value |-> "none"] }

\* The (device, state) pair the event entries name: the keys are opaque to the
\* events loop, so that every entry after the first meets an existing binding.
EventSources == { <<"btn", "on">> }

(***************************************************************************)
(* Program constants.                                                      *)
(***************************************************************************)
DEVICE_MAP ==
    { "Fan", "NeoPixel", "RGBNeoPixel", "CCS811", "DHT11", "DHT22", "AM2302",
      "VirtualToggleButton", "MomentaryButton", "ToggleButton", "Serial",
      "Switch", "HD44780U_LCD", "Matrix", "RotaryEncoder" }

EVENT_ACTIONS == { "webhook", "device" }

NoDevice == "None"

\* The attributes getattr(device, action) resolves, per device class.
Attributes(kind) ==
    CASE kind = "Fan"          -> { "on", "off", "set" }
      [] kind = "ToggleButton" -> { "get_state", "toggle_state", "process_events" }
      [] kind = "Matrix"       -> { "get_state", "manage_state", "process_events" }
      [] kind = "Switch"       -> { "get_state", "manage_state", "process_events" }
      [] OTHER                 -> {}

\* The routes a device class registers on its endpoint group while constructing.
GroupRoutes(kind) ==
    CASE kind = "Fan" -> { "on", "off", "set" }
      [] kind = "VirtualToggleButton" -> { "state", "on", "off" }
      [] kind \in { "ToggleButton", "Matrix", "Switch", "MomentaryButton",
                    "RotaryEncoder", "StatefulDevice" } -> { "state" }
      [] kind = "CCS811" -> { "" }
      [] OTHER -> {}

EmptyFn == [x \in {} |-> x]

VARIABLES
    pc,         \* position of Devices.__init__: devices, chains, events, done, aborted
    network,    \* whether self._network is set
    devices,    \* self.devices: name -> class name, or NoDevice
    groups,     \* keys of api._endpoint_groups
    routes,     \* api._routes: path -> handler
    events,     \* self.events: device -> state -> list of actions
    log,        \* the logger's entries, oldest first
    docIo,      \* whether api._doc_io has been generated
    declared,   \* history: the device entries read so far
    chains,     \* history: the chains read so far
    wired,      \* history: the event entries read so far
    fan,        \* the Fan "fan": _speed_value and the duty written to the PWM
    mtx,        \* the Matrix "mtx": _state
    pressed,    \* the matrix buttons physically held down
    btn,        \* the ToggleButton "btn": _state and _last_state
    btnPin,     \* the value of the button's input pin
    task,       \* scheduler: device name -> position of its _loop task
    server,     \* whether the request-server task has been started
    ticks,      \* number of process_events calls started so far
    served,     \* number of requests handed to route_requests so far
    lastTick,   \* history: device name -> what its last process_events did
    lastReq,    \* history: what the last route_requests call did
    sd,         \* a stateful device constructed on its own: kind, _state, aux
    pins,       \* the values of that device's input pins, as a 2-bit number
    sdTask,     \* position of that device's _loop task
    lastOp,     \* history: the last operation on that device and its outcome
    apiDoc,     \* api._doc of an API object studied on its own: the documented
                \* routes by base route, in the order registered, or Deleted
    docText,    \* the content of that object's _doc_io
    regLog,     \* history: the registrations made on that object, oldest first
    main,       \* position of Devices.loop: "init" until it is called, then "idle"
    calls,      \* history: the calls made on a device object directly, oldest first
    meas,       \* the measurement-mode register (MEAS_MODE) of a CCS811 sensor
    showDocs    \* api._show_docs of the API object

suVars == <<pc, network, devices, groups, routes, events, log, docIo,
            declared, chains, wired>>
kindVars == <<sd, pins, sdTask, lastOp>>
apiVars == <<apiDoc, docText, regLog, showDocs>>
rtVars == <<fan, mtx, pressed, btn, btnPin, task, server, ticks, served,
            lastTick, lastReq, kindVars, apiVars, main, calls, meas>>
vars == <<suVars, rtVars>>

(***************************************************************************)
(* Logger                                                                  *)
(***************************************************************************)
LogEntry(level, msg, names) ==
    [level |-> level, msg |-> msg, names |-> names,
     route |-> <<>>, status |-> 0, source |-> ""]

\* Logger._print_log: the default level is DEBUG, so every entry is written.
PrintLog(buffer, entry) == Append(buffer, entry)

(***************************************************************************)
(* API registration                                                        *)
(***************************************************************************)
Handler(owner, op, steps) == [owner |-> owner, op |-> op, steps |-> steps]

\* API.__init__: the built-in routes of the global api object.
ApiInitRoutes ==
    (<<"favicon.ico">> :> Handler("api", "favicon_ico", <<>>))
    @@ (<<"docs">> :> Handler("api", "docs", <<>>))
    @@ (<<"logs">> :> Handler("api", "logs", <<>>))

\* API.route(route)(endpoint): the later registration replaces the earlier.
ApiRoute(table, path, handler) ==
    [p \in DOMAIN table \cup {path} |-> IF p = path THEN handler ELSE table[p]]

\* EndpointGroup.route for every route the class registers in its constructor.
GroupRoute(table, name, kind) ==
    [p \in DOMAIN table \cup { <<name, r>> : r \in GroupRoutes(kind) } |->
        IF Len(p) = 2 /\ p[1] = name /\ p[2] \in GroupRoutes(kind)
        THEN Handler(name, p[2], <<>>)
        ELSE table[p]]

(***************************************************************************)
(* Devices.__init__ : device entries                                       *)
(***************************************************************************)
\* Before Devices.loop() runs there is no task, no request and no device object
\* of the running system.
NoTick == [changed |-> FALSE, ran |-> <<>>, raised |-> FALSE]
NoReq == [path |-> <<>>, outcome |-> "none", status |-> 0, entries |-> <<>>,
          wrote |-> <<>>, closed |-> FALSE, handlerRaised |-> FALSE,
          value |-> "none", prev |-> <<>>, fanBefore |-> [speed |-> 0, duty |-> 0],
          code |-> 0]

\* self._state = None, as StatefulDevice.__init__ leaves it
Unset == "<None>"
NoOp == [op |-> "none", outcome |-> "none", value |-> "", before |-> ""]

\* No stateful device is studied on its own.
KindsIdle ==
    /\ sd = [kind |-> "none", state |-> Unset, aux |-> 0]
    /\ pins = 0
    /\ sdTask = "none"
    /\ lastOp = NoOp

\* No API object is studied on its own.
ApiIdle ==
    /\ apiDoc = <<>>
    /\ docText = <<>>
    /\ regLog = <<>>
    /\ showDocs = TRUE

LoopsIdle ==
    /\ fan = [speed |-> 0, duty |-> 0]
    /\ mtx = [state |-> "None"]
    /\ pressed = {}
    /\ btn = [state |-> "off", last |-> "None"]
    /\ btnPin = 0
    /\ task = EmptyFn
    /\ server = FALSE
    /\ ticks = 0
    /\ served = 0
    /\ lastTick = EmptyFn
    /\ lastReq = NoReq
    /\ main = "init"
    /\ calls = <<>>
    /\ meas = 0

RuntimeIdle == KindsIdle /\ ApiIdle /\ LoopsIdle

InitStartup ==
    /\ pc = "devices"
    /\ network \in BOOLEAN
    /\ devices = EmptyFn
    /\ groups = {"action"}
    /\ routes = ApiInitRoutes
    /\ events = EmptyFn
    /\ log = <<>>
    /\ docIo = FALSE
    /\ declared = <<>>
    /\ chains = <<>>
    /\ wired = <<>>
    /\ RuntimeIdle

\* What a constructor has registered when its hardware step raises. Fan calls
\* super().__init__ (api.register) before PWM(Pin(pin)) and its routes after;
\* Matrix and Switch call StatefulDevice.__init__ (api.register, then the route
\* /state) before their pins are set up; ToggleButton sets up its pin first.
RegisteredBeforeFailure(kind) ==
    CASE kind = "Fan" -> [group |-> TRUE, routes |-> FALSE]
      [] kind \in { "Matrix", "Switch" } -> [group |-> TRUE, routes |-> TRUE]
      [] OTHER -> [group |-> FALSE, routes |-> FALSE]

\* BaseDevice.try_to_instantiate: cls(**kwargs), any exception logged, None returned.
\* What the constructor registered with the api before it raised stays registered.
TryToInstantiate(name, kind, raises) ==
    IF raises
    THEN /\ log' = PrintLog(log, LogEntry("error", "exception", {kind}))
         /\ devices' = devices @@ (name :> NoDevice)
         /\ groups' = IF RegisteredBeforeFailure(kind).group
                       THEN groups \cup {name} ELSE groups
         /\ routes' = IF RegisteredBeforeFailure(kind).routes
                       THEN GroupRoute(routes, name, kind) ELSE routes
    ELSE /\ devices' = devices @@ (name :> kind)
         /\ groups' = groups \cup {name}
         /\ routes' = GroupRoute(routes, name, kind)
         /\ UNCHANGED log

\* One iteration of the dict comprehension: DEVICE_MAP[entry["device"]](name=name, ...).
ConstructDevice ==
    /\ pc = "devices"
    /\ Len(declared) < MaxEntries
    /\ LET name == CfgNames[Len(declared) + 1] IN
       \E type \in CfgTypes(name), raises \in BOOLEAN :
          /\ (type \notin DEVICE_MAP) => ~raises
          /\ declared' = Append(declared,
                 [name |-> name, type |-> type, raised |-> raises])
          /\ IF type \notin DEVICE_MAP
             THEN \* KeyError, caught nowhere
                  /\ pc' = "aborted"
                  /\ UNCHANGED <<devices, groups, routes, log>>
             ELSE /\ TryToInstantiate(name, type, raises)
                  /\ UNCHANGED pc
    /\ UNCHANGED <<network, events, docIo, chains, wired>>
    /\ UNCHANGED rtVars

\* self.devices = {k: v for ... if v}; self.devices["_OnboardLED"] = OnboardLED()
Truthy(d) == { n \in DOMAIN d : d[n] # NoDevice }

\* A filter that adds no built-in device.
FilterDevicesOnlyConfigured ==
    /\ pc = "devices"
    /\ devices' = [n \in Truthy(devices) |-> devices[n]]
    /\ pc' = "chains"
    /\ UNCHANGED <<network, groups, routes, events, log, docIo,
                   declared, chains, wired>>
    /\ UNCHANGED rtVars

\* The registry keeps the devices that were constructed and gains the
\* heartbeat LED.
FilterDevices ==
    /\ pc = "devices"
    /\ devices' = [n \in Truthy(devices) \cup {"_OnboardLED"} |->
                      IF n = "_OnboardLED" THEN "OnboardLED" ELSE devices[n]]
    /\ pc' = "chains"
    /\ UNCHANGED <<network, groups, routes, events, log, docIo,
                   declared, chains, wired>>
    /\ UNCHANGED rtVars

(***************************************************************************)
(* Devices.__init__ : the top-level keys of the configuration document     *)
(***************************************************************************)
\* NETWORK_CONFIG_KEY, CHAINS_CONFIG_KEY, CONTEXT_CONFIG_KEY, EVENTS_CONTEXT_KEY:
\* the names the dict comprehension leaves out.
ReservedKeys == { "network", "chains", "context", "events" }

\* The top-level keys a configuration document may hold.
TopLevelKeys == ReservedKeys \cup { "actions", "fan", "btn" }

\* What a key holds: a device declaration {"device": type, ...}, or, under
\* "actions", a mapping of chain names to step lists, which has no "device" key.
NoDeviceKey == "<no device key>"
Skipped == "<skipped>"
EntryTypes(key) ==
    IF key = "actions" THEN { NoDeviceKey, "Fan" } ELSE CfgTypes(key)

\* One iteration of the dict comprehension over device_json.items(): a name of
\* the excluded list is skipped; for any other name entry["device"] is looked
\* up (KeyError without it), then DEVICE_MAP (KeyError for an unknown type),
\* and the factory is called with name=name.
TopLevelEntry ==
    /\ pc = "devices"
    /\ Len(declared) < MaxEntries
    /\ \E key \in TopLevelKeys \ { declared[i].name : i \in DOMAIN declared } :
         IF key \in ReservedKeys
         THEN /\ declared' = Append(declared,
                     [name |-> key, type |-> Skipped, raised |-> FALSE])
              /\ UNCHANGED <<pc, devices, groups, routes, log>>
         ELSE \E type \in EntryTypes(key), raises \in BOOLEAN :
                /\ (type \notin DEVICE_MAP) => ~raises
                /\ declared' = Append(declared,
                       [name |-> key, type |-> type, raised |-> raises])
                /\ IF type \notin DEVICE_MAP
                   THEN /\ pc' = "aborted"
                        /\ UNCHANGED <<devices, groups, routes, log>>
                   ELSE /\ TryToInstantiate(key, type, raises)
                        /\ UNCHANGED pc
    /\ UNCHANGED <<network, events, docIo, chains, wired>>
    /\ UNCHANGED rtVars

NextKeys ==
    \/ TopLevelEntry
    \/ FilterDevices

SpecKeys == InitStartup /\ [][NextKeys]_vars

(***************************************************************************)
(* Devices.__init__ : chains                                               *)
(***************************************************************************)
\* _curry(func, params): the bound method with its keyword arguments baked in.
Curry(step) == [kind |-> "device", name |-> step.dev, action |-> step.op,
                value |-> "none"]

\* Whether getattr(self.devices[step["device"]], step["action"]) succeeds.
StepResolves(step, reg) ==
    /\ step.dev \in DOMAIN reg
    /\ step.op \in Attributes(reg[step.dev])

\* A variant of the loop that skips a step that does not resolve (continue in the
\* place of break), so that the else branch of the loop always runs.
RECURSIVE CompileStepsNoBreak(_, _, _, _)
CompileStepsNoBreak(steps, reg, name, compiled) ==
    IF steps = <<>>
    THEN [ok |-> TRUE, compiled |-> compiled, errors |-> <<>>]
    ELSE LET step == Head(steps)
             good == step.dev \in DOMAIN reg /\ step.op \in Attributes(reg[step.dev])
             rest == CompileStepsNoBreak(Tail(steps), reg, name,
                        IF good THEN Append(compiled,
                                        [kind |-> "device", name |-> step.dev,
                                         action |-> step.op, value |-> "none"])
                        ELSE compiled)
         IN IF good THEN rest
            ELSE [rest EXCEPT !.errors =
                     << LogEntry("error", "Failed to load action: %s", {name}) >> \o @]

\* A variant of the loop whose KeyError branch logs as the general branch does:
\* the chain first, the text of the exception second.
RECURSIVE CompileStepsTwoEntries(_, _, _, _)
CompileStepsTwoEntries(steps, reg, name, compiled) ==
    IF steps = <<>>
    THEN [ok |-> TRUE, compiled |-> compiled, errors |-> <<>>]
    ELSE LET step == Head(steps) IN
         IF step.dev \notin DOMAIN reg \/ step.op \notin Attributes(reg[step.dev])
         THEN [ok |-> FALSE, compiled |-> compiled,
               errors |-> << LogEntry("error", "Failed to load action: %s", {name}),
                             LogEntry("error", "exception", {step.dev, step.op}) >>]
         ELSE CompileStepsTwoEntries(Tail(steps), reg, name,
                 Append(compiled, [kind |-> "device", name |-> step.dev,
                                   action |-> step.op, value |-> "none"]))

\* The body of `for step in steps: try ... except KeyError ... except Exception`:
\* the steps compiled before the first failure, the errors logged, and whether
\* the loop ended without break (its else branch runs).
RECURSIVE CompileSteps(_, _, _, _)
CompileSteps(steps, reg, name, compiled) ==
    IF steps = <<>>
    THEN [ok |-> TRUE, compiled |-> compiled, errors |-> <<>>]
    ELSE LET step == Head(steps) IN
         IF step.dev \notin DOMAIN reg
         THEN [ok |-> FALSE, compiled |-> compiled,
               errors |-> << LogEntry("error", "Failed to find device %s for action %s",
                                      {step.dev, name}) >>]
         ELSE IF step.op \notin Attributes(reg[step.dev])
         THEN [ok |-> FALSE, compiled |-> compiled,
               errors |-> << LogEntry("error", "Failed to load action: %s", {name}),
                             LogEntry("error", "no attribute", {reg[step.dev], step.op}) >>]
         ELSE CompileSteps(Tail(steps), reg, name, Append(compiled, Curry(step)))

\* An else branch that registers the route of every compiled chain.
RegisterChainAlways(table, name, result, net) ==
    IF result.ok
    THEN ApiRoute(table, <<"chain", name>>, Handler("chain", name, result.compiled))
    ELSE table

\* The else branch of the loop: a route only if a network is configured.
RegisterChain(table, name, result, net) ==
    IF result.ok /\ net
    THEN ApiRoute(table, <<"chain", name>>, Handler("chain", name, result.compiled))
    ELSE table

StepSeqs == UNION { [1..n -> StepOptions] : n \in 1..MaxSteps }

\* The kind of the first step of the chain that does not resolve.
FirstFailure(steps, reg) ==
    IF \A i \in DOMAIN steps : StepResolves(steps[i], reg)
    THEN "none"
    ELSE LET k == CHOOSE i \in DOMAIN steps :
                      /\ ~StepResolves(steps[i], reg)
                      /\ \A j \in 1..(i-1) : StepResolves(steps[j], reg)
         IN IF steps[k].dev \notin DOMAIN reg THEN "device" ELSE "operation"

\* One iteration of `for chain_name, steps in device_json.get("chains", {}).items()`.
CompileChain ==
    /\ pc = "chains"
    /\ Len(chains) < MaxChains
    /\ \E steps \in StepSeqs :
         LET name == ChainNames[Len(chains) + 1]
             result == CompileSteps(steps, devices, name, <<>>)
         IN /\ log' = log \o result.errors
            /\ routes' = RegisterChain(routes, name, result, network)
            /\ chains' = Append(chains,
                   [name |-> name,
                    steps |-> Len(steps),
                    resolved |-> \A i \in DOMAIN steps : StepResolves(steps[i], devices),
                    partial |-> StepResolves(steps[1], devices)
                                /\ \E i \in DOMAIN steps : ~StepResolves(steps[i], devices),
                    refsMissing |-> \E i \in DOMAIN steps : steps[i].dev \notin DOMAIN devices,
                    firstFail |-> FirstFailure(steps, devices),
                    logFrom |-> Len(log),
                    logTo |-> Len(log) + Len(result.errors)])
    /\ UNCHANGED <<pc, network, devices, groups, events, docIo, declared, wired>>
    /\ UNCHANGED rtVars

EndChains ==
    /\ pc = "chains"
    /\ pc' = "events"
    /\ UNCHANGED <<network, devices, groups, routes, events, log, docIo,
                   declared, chains, wired>>
    /\ UNCHANGED rtVars

(***************************************************************************)
(* Devices.__init__ : events                                               *)
(***************************************************************************)
\* URL_PATTERN.match(url) is not None
ValidUrls == { "http://hook:80/x", "http://down:80/x" }
UrlMatches(url) == url \in ValidUrls

\* Whether EVENT_ACTIONS[kind](**arguments, devices=devices) returns an instance.
ActionConstructs(spec, reg) ==
    /\ spec.kind \in EVENT_ACTIONS
    /\ spec.kind = "webhook" => UrlMatches(spec.name)
    /\ spec.kind = "device" =>
          /\ spec.name \in DOMAIN reg
          /\ spec.action \in Attributes(reg[spec.name])

\* An instance that keeps the method and forgets the keyword arguments.
ActionInstanceNoKwargs(spec) ==
    [kind |-> spec.kind, name |-> spec.name, action |-> spec.action, value |-> "none"]

\* Webhook(url) or DeviceAction(name, action, devices, **kwargs): the keyword
\* arguments left in the entry are kept for the call.
ActionInstance(spec) ==
    [kind |-> spec.kind, name |-> spec.name, action |-> spec.action,
     value |-> spec.value]

\* A parse that hands the instances back last action first.
RECURSIVE ParseEventActionsReversed(_, _)
ParseEventActionsReversed(raw, reg) ==
    IF raw = <<>>
    THEN [raised |-> FALSE, actions |-> <<>>]
    ELSE IF ~ActionConstructs(Head(raw), reg)
    THEN [raised |-> TRUE, actions |-> <<>>]
    ELSE LET rest == ParseEventActionsReversed(Tail(raw), reg) IN
         [raised |-> rest.raised,
          actions |-> IF rest.raised THEN <<>>
                      ELSE rest.actions \o <<ActionInstance(Head(raw))>>]

\* parse_event_actions: the instances built, or raised at the first action whose
\* constructor (or whose lookup in EVENT_ACTIONS) raises.
RECURSIVE ParseEventActions(_, _)
ParseEventActions(raw, reg) ==
    IF raw = <<>>
    THEN [raised |-> FALSE, actions |-> <<>>]
    ELSE IF ~ActionConstructs(Head(raw), reg)
    THEN [raised |-> TRUE, actions |-> <<>>]
    ELSE LET rest == ParseEventActions(Tail(raw), reg) IN
         [raised |-> rest.raised,
          actions |-> IF rest.raised THEN <<>>
                      ELSE <<ActionInstance(Head(raw))>> \o rest.actions]

\* events[device][state], created empty when absent
WithBinding(table, device, state) ==
    LET t1 == IF device \in DOMAIN table THEN table ELSE table @@ (device :> EmptyFn)
    IN IF state \in DOMAIN t1[device] THEN t1
       ELSE [t1 EXCEPT ![device] = @ @@ (state :> <<>>)]

\* One iteration of `for event in device_json.get("events", [])`, the entry
\* naming a pair of `sources` and carrying one of the action lists of `raws`.
WireFrom(sources, raws) ==
    /\ pc = "events"
    /\ Len(wired) < MaxEvents
    /\ \E src \in sources, raw \in raws :
         LET parsed == ParseEventActions(raw, devices)
             table == WithBinding(events, src[1], src[2])
         IN /\ wired' = Append(wired, [device |-> src[1], state |-> src[2],
                                       spec |-> raw[1], raw |-> raw])
            /\ IF parsed.raised
               THEN \* the exception leaves Devices.__init__
                    /\ events' = table
                    /\ pc' = "aborted"
               ELSE /\ events' = [table EXCEPT ![src[1]][src[2]] = @ \o parsed.actions]
                    /\ UNCHANGED pc
    /\ UNCHANGED <<network, devices, groups, routes, log, docIo, declared, chains>>
    /\ UNCHANGED rtVars

WireEvent == WireFrom(EventSources, { <<spec>> : spec \in ActionOptions })

\* gc.collect(); if self._network: api.documentation
FinishStartup ==
    /\ pc = "events"
    /\ pc' = "done"
    /\ docIo' = network
    /\ UNCHANGED <<network, devices, groups, routes, events, log,
                   declared, chains, wired>>
    /\ UNCHANGED rtVars

NextStartup ==
    \/ ConstructDevice
    \/ FilterDevices
    \/ CompileChain
    \/ EndChains
    \/ WireEvent
    \/ FinishStartup

SpecStartup == InitStartup /\ [][NextStartup]_vars

(***************************************************************************)
(* The running system: bounds and the universe of its inputs               *)
(***************************************************************************)
MaxActs == 2
MaxTicks == 3
MaxRequests == 2
MaxCalls == 3

FanOnAction == [kind |-> "device", name |-> "fan", action |-> "on", value |-> "none"]
FanOffAction == [kind |-> "device", name |-> "fan", action |-> "off", value |-> "none"]
\* {"device": {"name": "fan", "action": "set", "value": "abc"}}
FanSetBadAction == [kind |-> "device", name |-> "fan", action |-> "set", value |-> "abc"]
\* {"device": "fan", "action": "set", "value": "50"}, a step of a chain
FanSet50Action == [kind |-> "device", name |-> "fan", action |-> "set", value |-> "50"]

RunActionSet == { FanOnAction, FanOffAction, FanSetBadAction }
BoundLists == UNION { [1..n -> RunActionSet] : n \in 0..MaxActs }
\* The state "0_0" is bound to any list, or to none; "None" to a list of the
\* empty or the one-action kind, or to none.
MtxBindings ==
    UNION { { a @@ b : a \in [A -> BoundLists],
                       b \in [B -> { <<>>, <<FanOnAction>> }] } :
            A \in SUBSET {"0_0"}, B \in SUBSET {"None"} }
EventTables ==
    { ("mtx" :> m) @@ ("btn" :> ("on" :> <<FanOnAction>>)) : m \in MtxBindings }
    \cup { EmptyFn }
RunChains == { <<FanOffAction>>, <<FanOnAction, FanSetBadAction>>,
               <<FanOnAction, FanSet50Action>> }

\* Request targets and the value of the query parameter "value" ("none": no query).
ReqPaths == { <<"fan", "on">>, <<"fan", "set">>, <<"mtx", "state">>,
              <<"chain", "c1">>, <<"docs">>, <<"logs">>, <<"nope">> }
ReqValues == { "none", "50", "150" }
Peer == "10.0.0.2:5000"

(***************************************************************************)
(* Fan                                                                     *)
(***************************************************************************)
FanIdle == 25
MaxDutyCycle == 65530

\* The strings int() converts, with their values.
IntLiterals == { "0", "25", "50", "100", "150" }
IntOf(s) == CASE s = "0" -> 0 [] s = "25" -> 25 [] s = "50" -> 50 [] s = "100" -> 100
              [] s = "150" -> 150

\* round(n / 100): to the nearest integer, ties to the even one.
RoundDiv100(n) ==
    LET q == n \div 100
        r == n % 100
    IN IF r > 50 \/ (r = 50 /\ q % 2 = 1) THEN q + 1 ELSE q

\* Fan._set: the duty written to the PWM for a speed.
Duty(value) == RoundDiv100((100 - value) * MaxDutyCycle)

Returned(f, result) == [fan |-> f, raised |-> FALSE, keyError |-> FALSE,
                        result |-> result, errors |-> <<>>]
Raised(f) == [fan |-> f, raised |-> TRUE, keyError |-> FALSE,
              result |-> "none", errors |-> <<>>]

\* A fan whose on() switches between the running and the stopped duty.
FanCallOnToggles(f, op, value) ==
    CASE op = "on" ->
           IF value # "none" THEN Raised(f)
           ELSE Returned([f EXCEPT !.duty = IF f.duty = Duty(0) THEN Duty(f.speed)
                                            ELSE Duty(0)], "dict")
      [] op = "off" ->
           IF value # "none" THEN Raised(f)
           ELSE Returned([f EXCEPT !.duty = Duty(0)], "dict")
      [] OTHER ->
           IF value \notin IntLiterals THEN Raised(f)
           ELSE Returned([speed |-> IntOf(value), duty |-> Duty(IntOf(value))], "dict")

\* A fan whose off() is set(0): the stored speed is lost.
FanCallOffForgets(f, op, value) ==
    CASE op = "on" ->
           IF value # "none" THEN Raised(f)
           ELSE Returned([f EXCEPT !.duty = Duty(f.speed)], "dict")
      [] op = "off" ->
           IF value # "none" THEN Raised(f)
           ELSE Returned([speed |-> 0, duty |-> Duty(0)], "dict")
      [] OTHER ->
           IF value \notin IntLiterals THEN Raised(f)
           ELSE Returned([speed |-> IntOf(value), duty |-> Duty(IntOf(value))], "dict")

\* Fan.on / Fan.off / Fan.set called with the keyword argument value (or none).
FanCall(f, op, value) ==
    CASE op = "on" ->
           IF value # "none" THEN Raised(f)                  \* TypeError
           ELSE Returned([f EXCEPT !.duty = Duty(f.speed)], "dict")
      [] op = "off" ->
           IF value # "none" THEN Raised(f)                  \* TypeError
           ELSE Returned([f EXCEPT !.duty = Duty(0)], "dict")
      [] OTHER ->
           IF value \notin IntLiterals THEN Raised(f)        \* TypeError, ValueError
           ELSE Returned([speed |-> IntOf(value), duty |-> Duty(IntOf(value))], "dict")

(***************************************************************************)
(* Actions                                                                 *)
(***************************************************************************)
\* A webhook call that lets the OSError of an unreachable host out.
ExecActionUncaught(act, f) ==
    IF act.kind = "webhook"
    THEN IF act.name = "http://down:80/x" THEN Raised(f) ELSE Returned(f, "none")
    ELSE FanCall(f, act.action, act.value)

\* Webhook.__call__ catches the OSError of an unreachable host and logs it;
\* DeviceAction.__call__ awaits the bound method and lets its exception out.
ExecAction(act, f) ==
    IF act.kind = "webhook"
    THEN IF act.name = "http://down:80/x"
         THEN [Returned(f, "none") EXCEPT
                  !.errors = << LogEntry("error", "OSError", {}) >>]
         ELSE Returned(f, "none")
    ELSE FanCall(f, act.action, act.value)

\* A loop that walks the list from its last action to its first.
RECURSIVE RunActionsReversed(_, _)
RunActionsReversed(list, f) ==
    IF list = <<>>
    THEN [fan |-> f, ran |-> <<>>, raised |-> FALSE, errors |-> <<>>]
    ELSE LET last == list[Len(list)]
             r == ExecAction(last, f) IN
         IF r.raised
         THEN [fan |-> r.fan, ran |-> <<last>>, raised |-> TRUE, errors |-> r.errors]
         ELSE LET rest == RunActionsReversed(SubSeq(list, 1, Len(list) - 1), r.fan) IN
              [fan |-> rest.fan, ran |-> <<last>> \o rest.ran,
               raised |-> rest.raised, errors |-> r.errors \o rest.errors]

\* `for action in actions: await action()`: the actions started, in order, up to
\* and including the first that raises.
RECURSIVE RunActions(_, _)
RunActions(list, f) ==
    IF list = <<>>
    THEN [fan |-> f, ran |-> <<>>, raised |-> FALSE, errors |-> <<>>]
    ELSE LET r == ExecAction(Head(list), f) IN
         IF r.raised
         THEN [fan |-> r.fan, ran |-> <<Head(list)>>, raised |-> TRUE,
               errors |-> r.errors]
         ELSE LET rest == RunActions(Tail(list), r.fan) IN
              [fan |-> rest.fan, ran |-> <<Head(list)>> \o rest.ran,
               raised |-> rest.raised, errors |-> r.errors \o rest.errors]

\* events.get(self.name, {}).get(self.state, [])
Bound(table, name, state) ==
    IF name \in DOMAIN table /\ state \in DOMAIN table[name]
    THEN table[name][state]
    ELSE <<>>

(***************************************************************************)
(* The state after construction                                            *)
(***************************************************************************)
\* A configuration declaring the Fan "fan", the ToggleButton "btn" and the
\* Matrix "mtx", one chain "c1" and events bound to the matrix and the button.
\* The histories of Devices.__init__ are not carried into the running system.
Constructed(steps, table) ==
    /\ pc = "done"
    /\ network \in BOOLEAN
    /\ devices = ("fan" :> "Fan") @@ ("btn" :> "ToggleButton")
                 @@ ("mtx" :> "Matrix") @@ ("_OnboardLED" :> "OnboardLED")
    /\ groups = {"action", "fan", "btn", "mtx"}
    /\ routes = RegisterChain(
                   GroupRoute(GroupRoute(GroupRoute(ApiInitRoutes, "fan", "Fan"),
                                         "btn", "ToggleButton"), "mtx", "Matrix"),
                   "c1", [ok |-> TRUE, compiled |-> steps], network)
    /\ events = table
    /\ log = <<>>
    /\ docIo = network
    /\ declared = <<>>
    /\ chains = <<>>
    /\ wired = <<>>
    /\ fan = [speed |-> FanIdle, duty |-> Duty(FanIdle)]
    /\ mtx = [state |-> "None"]
    /\ pressed = {}
    /\ btnPin \in {0, 1}
    /\ btn = [state |-> IF btnPin = 1 THEN "on" ELSE "off", last |-> <<>>]
    /\ ticks = 0
    /\ served = 0
    /\ lastReq = NoReq

Init ==
    /\ KindsIdle
    /\ ApiIdle
    /\ \E table \in EventTables : Constructed(<<FanOffAction>>, table)
    /\ task = EmptyFn
    /\ server = FALSE
    /\ lastTick = EmptyFn
    /\ main = "init"
    /\ calls = <<>>
    /\ meas = 0

(***************************************************************************)
(* The fan called directly, as the test script does                        *)
(***************************************************************************)
InitCalls ==
    /\ KindsIdle
    /\ ApiIdle
    /\ Constructed(<<FanOffAction>>, EmptyFn)
    /\ task = EmptyFn
    /\ server = FALSE
    /\ lastTick = EmptyFn
    /\ main = "init"
    /\ calls = <<>>
    /\ meas = 0

\* The arguments of a call: on() and off() take none; set(value=...) is given a
\* number, in or out of 0..100, or a string that is no number.
CallValues(op) == IF op = "set" THEN { "0", "50", "150", "abc" } ELSE { "none" }

\* asyncio.run(fan.set(value=v)), asyncio.run(fan.off()), asyncio.run(fan.on())
FanDirectCall ==
    /\ pc = "done"
    /\ Len(calls) < MaxCalls
    /\ \E op \in { "on", "off", "set" } :
         \E value \in CallValues(op) :
            LET r == FanCall(fan, op, value) IN
            /\ fan' = r.fan
            /\ calls' = Append(calls, [op |-> op, value |-> value,
                                       raised |-> r.raised, fan |-> r.fan])
    /\ UNCHANGED <<suVars, mtx, pressed, btn, btnPin, task, server, ticks, served,
                   lastTick, lastReq>>
    /\ UNCHANGED <<kindVars, apiVars, main, meas>>

NextCalls == FanDirectCall

SpecCalls == InitCalls /\ [][NextCalls]_vars

(***************************************************************************)
(* CCS811.mode                                                             *)
(***************************************************************************)
\* mode is not None, without the check for mode 4.
CCS811ModeUnchecked(reg, mode) ==
    [raised |-> FALSE, wrote |-> TRUE, reg |-> (mode % 8) * 16, result |-> mode]

\* CCS811.mode with mode given: mode 4 raises before the register is written;
\* any other mode writes 0b0_111_0000 & mode << 4 to MEAS_MODE and is echoed.
CCS811Mode(reg, mode) ==
    IF mode = 4
    THEN [raised |-> TRUE, wrote |-> FALSE, reg |-> reg, result |-> 0]
    ELSE [raised |-> FALSE, wrote |-> TRUE, reg |-> (mode % 8) * 16, result |-> mode]

\* CCS811.mode with no mode: the register is read, "drive_mode" is mode >> 4.
CCS811ReadMode(reg) ==
    [raised |-> FALSE, wrote |-> FALSE, reg |-> reg, result |-> reg \div 16]

\* The modes a caller passes: the drive modes of the data sheet and beyond.
ModeArgs == 0..12

\* A CCS811 "air" constructed on its own: the constructor has written the
\* default mode 1 if the status was good, and nothing otherwise.
InitSensor ==
    /\ pc = "done"
    /\ network = FALSE
    /\ devices = ("air" :> "CCS811") @@ ("_OnboardLED" :> "OnboardLED")
    /\ groups = { "action", "air" }
    /\ routes = GroupRoute(ApiInitRoutes, "air", "CCS811")
    /\ events = EmptyFn
    /\ log = <<>>
    /\ docIo = FALSE
    /\ declared = <<>>
    /\ chains = <<>>
    /\ wired = <<>>
    /\ KindsIdle
    /\ ApiIdle
    /\ fan = [speed |-> 0, duty |-> 0]
    /\ mtx = [state |-> "None"]
    /\ pressed = {}
    /\ btn = [state |-> "off", last |-> "None"]
    /\ btnPin = 0
    /\ task = EmptyFn
    /\ server = FALSE
    /\ ticks = 0
    /\ served = 0
    /\ lastTick = EmptyFn
    /\ lastReq = NoReq
    /\ main = "init"
    /\ calls = <<>>
    /\ meas \in { 0, 16 }

\* asyncio.run(sensor.mode(m)) or asyncio.run(sensor.mode())
SensorCall ==
    /\ pc = "done"
    /\ "air" \in DOMAIN devices
    /\ Len(calls) < MaxCalls
    /\ \E given \in BOOLEAN, mode \in ModeArgs :
         /\ ~given => mode = 0
         /\ LET r == IF given THEN CCS811Mode(meas, mode) ELSE CCS811ReadMode(meas) IN
            /\ meas' = r.reg
            /\ calls' = Append(calls, [op |-> "mode", given |-> given, value |-> mode,
                                       raised |-> r.raised, wrote |-> r.wrote,
                                       result |-> r.result, before |-> meas])
    /\ UNCHANGED <<suVars, fan, mtx, pressed, btn, btnPin, task, server, ticks, served,
                   lastTick, lastReq>>
    /\ UNCHANGED <<kindVars, apiVars, main>>

NextSensor == SensorCall

SpecSensor == InitSensor /\ [][NextSensor]_vars

(***************************************************************************)
(* Devices.loop                                                            *)
(***************************************************************************)
\* A loop that starts the request server whether or not a network is configured.
StartLoopServerAlways ==
    /\ pc = "done"
    /\ task = EmptyFn
    /\ server' = TRUE
    /\ task' = [d \in DOMAIN devices |-> "ready"]
    /\ lastTick' = [d \in DOMAIN devices |-> NoTick]
    /\ main' = "idle"
    /\ UNCHANGED <<calls, meas>>
    /\ UNCHANGED <<suVars, fan, mtx, pressed, btn, btnPin, ticks, served, lastReq>>
    /\ UNCHANGED <<kindVars, apiVars>>

\* The request server is started if a network is configured, then one task per
\* device of the registry; the caller then sleeps forever.
StartLoop ==
    /\ pc = "done"
    /\ task = EmptyFn
    /\ server' = network
    /\ task' = [d \in DOMAIN devices |-> "ready"]
    /\ lastTick' = [d \in DOMAIN devices |-> NoTick]
    /\ main' = "idle"
    /\ UNCHANGED <<calls, meas>>
    /\ UNCHANGED <<suVars, fan, mtx, pressed, btn, btnPin, ticks, served, lastReq>>
    /\ UNCHANGED <<kindVars, apiVars>>

\* BaseDevice._loop: returns at once.
BaseLoop ==
    /\ "fan" \in DOMAIN task
    /\ task["fan"] = "ready"
    /\ task' = [task EXCEPT !["fan"] = "returned"]
    /\ UNCHANGED <<suVars, fan, mtx, pressed, btn, btnPin, server, ticks, served,
                   lastTick, lastReq>>
    /\ UNCHANGED <<kindVars, apiVars, main, calls, meas>>

(***************************************************************************)
(* StatefulDevice.process_events, after manage_state has been awaited      *)
(***************************************************************************)
\* A lookup made with the state the device was constructed in whenever the
\* recompute of the tick has changed the state.
RunBoundStale(d, state, changed) ==
    LET r == RunActions(Bound(events, d, IF changed THEN "None" ELSE state), fan) IN
    /\ fan' = r.fan
    /\ log' = log \o r.errors
    /\ task' = [task EXCEPT ![d] = IF r.raised THEN "raised" ELSE "sleep"]
    /\ lastTick' = [lastTick EXCEPT ![d] =
                       [changed |-> changed, ran |-> r.ran, raised |-> r.raised]]

\* A scheduler that is stopped by the exception of one task: every task ends.
RunBoundStopsAll(d, state, changed) ==
    LET r == RunActions(Bound(events, d, state), fan) IN
    /\ fan' = r.fan
    /\ log' = log \o r.errors
    /\ task' = IF r.raised THEN [e \in DOMAIN task |-> "raised"]
               ELSE [task EXCEPT ![d] = "sleep"]
    /\ lastTick' = [lastTick EXCEPT ![d] =
                       [changed |-> changed, ran |-> r.ran, raised |-> r.raised]]

\* The bound actions of the current state are run in order; an exception of an
\* action leaves process_events and the `while True` of _loop, ending the task.
RunBound(d, state, changed) ==
    LET r == RunActions(Bound(events, d, state), fan) IN
    /\ fan' = r.fan
    /\ log' = log \o r.errors
    /\ task' = [task EXCEPT ![d] = IF r.raised THEN "raised" ELSE "sleep"]
    /\ lastTick' = [lastTick EXCEPT ![d] =
                       [changed |-> changed, ran |-> r.ran, raised |-> r.raised]]

(***************************************************************************)
(* Matrix                                                                  *)
(***************************************************************************)
\* One column and two rows: the buttons in the order manage_state scans them.
ScanOrder == <<"0_0", "0_1">>

\* Matrix.manage_state: the first button found held, or "None".
Scan(held) ==
    IF \E i \in DOMAIN ScanOrder : ScanOrder[i] \in held
    THEN ScanOrder[CHOOSE i \in DOMAIN ScanOrder :
                      /\ ScanOrder[i] \in held
                      /\ \A j \in 1..(i-1) : ScanOrder[j] \notin held]
    ELSE "None"

\* Matrix._loop: process_events up to the first suspension. A changed state is
\* stored and manage_state sleeps button_debounce; an unchanged one goes straight
\* on to the bound actions.
MatrixPoll ==
    /\ "mtx" \in DOMAIN task
    /\ task["mtx"] = "ready"
    /\ ticks < MaxTicks
    /\ ticks' = ticks + 1
    /\ LET state == Scan(pressed) IN
       IF state # mtx.state
       THEN /\ mtx' = [state |-> state]
            /\ task' = [task EXCEPT !["mtx"] = "debounce"]
            /\ lastTick' = [lastTick EXCEPT !["mtx"] =
                               [changed |-> TRUE, ran |-> <<>>, raised |-> FALSE]]
            /\ UNCHANGED <<fan, log>>
       ELSE /\ RunBound("mtx", mtx.state, FALSE)
            /\ UNCHANGED mtx
    /\ UNCHANGED <<pc, network, devices, groups, routes, events, docIo,
                   declared, chains, wired>>
    /\ UNCHANGED <<pressed, btn, btnPin, server, served, lastReq>>
    /\ UNCHANGED <<kindVars, apiVars, main, calls, meas>>

\* The debounce sleep is over: manage_state returns and the bound actions run.
MatrixDebounced ==
    /\ "mtx" \in DOMAIN task
    /\ task["mtx"] = "debounce"
    /\ RunBound("mtx", mtx.state, TRUE)
    /\ UNCHANGED <<pc, network, devices, groups, routes, events, docIo,
                   declared, chains, wired>>
    /\ UNCHANGED <<mtx, pressed, btn, btnPin, server, ticks, served, lastReq>>
    /\ UNCHANGED <<kindVars, apiVars, main, calls, meas>>

\* asyncio.sleep(self.poll_sleep) is over.
MatrixWake ==
    /\ "mtx" \in DOMAIN task
    /\ task["mtx"] = "sleep"
    /\ task' = [task EXCEPT !["mtx"] = "ready"]
    /\ UNCHANGED <<suVars, fan, mtx, pressed, btn, btnPin, server, ticks, served,
                   lastTick, lastReq>>
    /\ UNCHANGED <<kindVars, apiVars, main, calls, meas>>

\* The buttons of the matrix are pressed and released.
Press ==
    /\ pc = "done"
    /\ ticks < MaxTicks
    /\ \E held \in SUBSET { ScanOrder[i] : i \in DOMAIN ScanOrder } :
         /\ held # pressed
         /\ pressed' = held
    /\ UNCHANGED <<suVars, fan, mtx, btn, btnPin, task, server, ticks, served,
                   lastTick, lastReq>>
    /\ UNCHANGED <<kindVars, apiVars, main, calls, meas>>

(***************************************************************************)
(* ToggleButton                                                            *)
(***************************************************************************)
\* A toggle_state that only remembers the sampled value.
ToggleStateKeepsState(b, value) == [state |-> b.state, last |-> <<value>>]

\* ToggleButton.toggle_state
ToggleState(b, value) ==
    IF <<value>> # b.last
    THEN [state |-> IF value = 1 THEN "on" ELSE "off", last |-> <<value>>]
    ELSE b

\* What `await x` does when x is the str that toggle_state returned: the
\* interpreter raises (the task ends), or hands the value to the scheduler,
\* which never resumes the task.
AwaitNonAwaitable == { "raised", "stalled" }

\* ToggleButton._loop: process_events calls the synchronous toggle_state and
\* awaits its return value; the bound actions are not reached.
ButtonPoll ==
    /\ "btn" \in DOMAIN task
    /\ task["btn"] = "ready"
    /\ ticks < MaxTicks
    /\ ticks' = ticks + 1
    /\ btn' = ToggleState(btn, btnPin)
    /\ \E outcome \in AwaitNonAwaitable :
         task' = [task EXCEPT !["btn"] = outcome]
    /\ lastTick' = [lastTick EXCEPT !["btn"] =
                       [changed |-> btn'.state # btn.state, ran |-> <<>>,
                        raised |-> FALSE]]
    /\ UNCHANGED <<suVars, fan, mtx, pressed, btnPin, server, served, lastReq>>
    /\ UNCHANGED <<kindVars, apiVars, main, calls, meas>>

\* The input of the button changes.
SetPin ==
    /\ pc = "done"
    /\ ticks < MaxTicks
    /\ btnPin' = 1 - btnPin
    /\ UNCHANGED <<suVars, fan, mtx, pressed, btn, task, server, ticks, served,
                   lastTick, lastReq>>
    /\ UNCHANGED <<kindVars, apiVars, main, calls, meas>>

(***************************************************************************)
(* API.route_requests                                                      *)
(***************************************************************************)
\* self._routes[route](**params or {}): what the registered handler does when
\* called with the query parameter "value" (or with none).
Invoke(h, value, f) ==
    CASE h.owner = "fan" -> FanCall(f, h.op, value)
      [] h.owner = "chain" ->
           IF value # "none" THEN Raised(f)                  \* TypeError
           ELSE LET r == RunActions(h.steps, f) IN
                IF r.raised
                THEN [Raised(r.fan) EXCEPT !.errors = r.errors]
                ELSE [Returned(r.fan, "dict") EXCEPT !.errors = r.errors]
      [] h.owner = "api" ->
           IF value # "none" THEN Raised(f)                  \* TypeError
           ELSE IF h.op = "logs" THEN Returned(f, "str")
           ELSE Returned(f, "io")
      [] OTHER ->                                            \* get_state
           IF value # "none" THEN Raised(f) ELSE Returned(f, "dict")

\* A try/except whose first clause takes every exception for a missing route.
DispatchAllMissing(table, path, value, f) ==
    IF path \notin DOMAIN table
    THEN [call |-> Raised(f), code |-> 404, handlerRaised |-> FALSE]
    ELSE LET call == Invoke(table[path], value, f) IN
         [call |-> call,
          code |-> IF ~call.raised THEN 200 ELSE 404,
          handlerRaised |-> call.raised]

\* The try/except of route_requests: the handler's outcome and response_code.
Dispatch(table, path, value, f) ==
    IF path \notin DOMAIN table
    THEN [call |-> Raised(f), code |-> 404, handlerRaised |-> FALSE]
    ELSE LET call == Invoke(table[path], value, f) IN
         [call |-> call,
          code |-> IF ~call.raised THEN 200
                   ELSE IF call.keyError THEN 404 ELSE 500,
          handlerRaised |-> call.raised]

\* The log entry of a request: log_method(..., route=, status_code=, source=).
RequestEntry(path, code) ==
    [level |-> IF code = 200 THEN "info" ELSE "error", msg |-> "request",
     names |-> {}, route |-> path, status |-> code, source |-> Peer]

\* The finally block of route_requests: with no result it raises before anything
\* is logged or written; a str result has no seek(), so the body is not reached.
Respond(path, d) ==
    IF d.call.result = "none"
    THEN [path |-> path, outcome |-> "raised", status |-> 0, entries |-> <<>>,
          wrote |-> <<>>, closed |-> FALSE, handlerRaised |-> d.handlerRaised]
    ELSE IF d.call.result = "str"
    THEN [path |-> path, outcome |-> "raised", status |-> d.code,
          entries |-> << RequestEntry(path, d.code) >>,
          wrote |-> <<"status", "content-type">>, closed |-> FALSE,
          handlerRaised |-> d.handlerRaised]
    ELSE [path |-> path, outcome |-> "responded", status |-> d.code,
          entries |-> << RequestEntry(path, d.code) >>,
          wrote |-> <<"status", "content-type", "body">>, closed |-> TRUE,
          handlerRaised |-> d.handlerRaised]

\* A server that registers a handler for every path it had no route for.
ServeFromRegistering(paths, values) ==
    /\ server
    /\ served < MaxRequests
    /\ served' = served + 1
    /\ \E path \in paths, value \in values :
         LET d == Dispatch(routes, path, value, fan)
             resp == Respond(path, d)
         IN /\ fan' = d.call.fan
            /\ log' = (log \o d.call.errors) \o resp.entries
            /\ lastReq' = resp @@ [value |-> value,
                                    prev |-> <<lastReq.path, lastReq.value>>,
                                    fanBefore |-> fan, code |-> d.code]
            /\ routes' = IF path \in DOMAIN routes THEN routes
                         ELSE ApiRoute(routes, path, Handler("api", "not_found", <<>>))
    /\ UNCHANGED <<pc, network, devices, groups, events, docIo,
                   declared, chains, wired>>
    /\ UNCHANGED <<mtx, pressed, btn, btnPin, task, server, ticks, lastTick>>
    /\ UNCHANGED <<kindVars, apiVars, main, calls, meas>>

\* One connection accepted by the server and handled by route_requests. The
\* server task accepts the next connection whatever became of this one. The
\* history keeps, beside the response, the query value, the request before
\* this one and the fan as the handler found it. The request is for one of
\* `paths`, with one of `values` as its query.
ServeFrom(paths, values) ==
    /\ server
    /\ served < MaxRequests
    /\ served' = served + 1
    /\ \E path \in paths, value \in values :
         LET d == Dispatch(routes, path, value, fan)
             resp == Respond(path, d)
         IN /\ fan' = d.call.fan
            /\ log' = (log \o d.call.errors) \o resp.entries
            /\ lastReq' = resp @@ [value |-> value,
                                    prev |-> <<lastReq.path, lastReq.value>>,
                                    fanBefore |-> fan, code |-> d.code]
    /\ UNCHANGED <<pc, network, devices, groups, routes, events, docIo,
                   declared, chains, wired>>
    /\ UNCHANGED <<mtx, pressed, btn, btnPin, task, server, ticks, lastTick>>
    /\ UNCHANGED <<kindVars, apiVars, main, calls, meas>>

HandleRequest == ServeFrom(ReqPaths, ReqValues)

\* The running system with the request server accepting connections.
InitApi ==
    /\ KindsIdle
    /\ ApiIdle
    /\ \E steps \in RunChains : Constructed(steps, EmptyFn)
    /\ network
    /\ task = [d \in DOMAIN devices |-> "ready"]
    /\ server = network
    /\ lastTick = [d \in DOMAIN devices |-> NoTick]
    /\ main = "idle"
    /\ calls = <<>>
    /\ meas = 0

NextApi == HandleRequest

SpecApi == InitApi /\ [][NextApi]_vars

Next ==
    \/ StartLoop
    \/ BaseLoop
    \/ MatrixPoll
    \/ MatrixDebounced
    \/ MatrixWake
    \/ Press
    \/ ButtonPoll
    \/ SetPin

Spec == Init /\ [][Next]_vars

(***************************************************************************)
(* The device tasks and the request server under the scheduler             *)
(***************************************************************************)
\* A network is configured; pressing key 0_0 of the matrix runs fan.set with a
\* value that is no number.
FairTables ==
    { ("mtx" :> ("0_0" :> << FanSetBadAction >>))
      @@ ("btn" :> ("on" :> << FanOnAction >>)) }

InitFair ==
    /\ KindsIdle
    /\ ApiIdle
    /\ \E table \in FairTables : Constructed(<< FanOffAction >>, table)
    /\ network
    /\ task = EmptyFn
    /\ server = FALSE
    /\ lastTick = EmptyFn
    /\ main = "init"
    /\ calls = <<>>
    /\ meas = 0

\* The requests that arrive turn the fan on.
FairRequest == ServeFrom({ << "fan", "on" >> }, { "none" })

NextFair ==
    \/ StartLoop
    \/ BaseLoop
    \/ MatrixPoll
    \/ MatrixDebounced
    \/ MatrixWake
    \/ Press
    \/ ButtonPoll
    \/ SetPin
    \/ FairRequest

\* The scheduler runs every task that is ready, each in its turn, and a sleep
\* ends; the inputs (keys, pin) change as they please.
SpecFair ==
    /\ InitFair
    /\ [][NextFair]_vars
    /\ WF_vars(StartLoop)
    /\ WF_vars(BaseLoop)
    /\ WF_vars(MatrixPoll)
    /\ WF_vars(MatrixDebounced)
    /\ WF_vars(MatrixWake)
    /\ WF_vars(ButtonPoll)
    /\ WF_vars(FairRequest)

\* The requests of the running system: a device route, the chain and a path
\* that has no route.
RunRequest == ServeFrom({ << "fan", "on" >>, << "chain", "c1" >>, << "nope" >> },
                        { "none" })

NextRun ==
    \/ StartLoop
    \/ BaseLoop
    \/ MatrixPoll
    \/ MatrixDebounced
    \/ MatrixWake
    \/ Press
    \/ ButtonPoll
    \/ SetPin
    \/ RunRequest

\* The device loops and the request server together, after startup.
SpecRun == InitFair /\ [][NextRun]_vars

\* A step of the running system.
C28Step ==
    pc = "done" => /\ routes' = routes
                   /\ events' = events

\* C28: once startup has completed, the route table and the event table are
\* never modified: no tick of a device loop, no action run by it, no invocation
\* of the chain and no request, for a route or for a path without one, adds,
\* removes or replaces a route or a binding.
C28_TablesFrozenAfterStartup == [][C28Step]_vars

\* The matrix has run its bound action, the chain has been invoked over its
\* route and a path without a route has been requested.
C28_Witness ==
    /\ pc = "done"
    /\ "mtx" \in DOMAIN lastTick
    /\ lastTick["mtx"].ran # <<>>
    /\ served = MaxRequests
    /\ lastReq.path = << "nope" >>
    /\ lastReq.outcome = "raised"
    /\ lastReq.prev = << << "chain", "c1" >>, "none" >>
    /\ << "chain", "c1" >> \in DOMAIN routes
    /\ << "nope" >> \notin DOMAIN routes

(***************************************************************************)
(* Events wired from the configuration, then triggered by the matrix       *)
(***************************************************************************)
\* {"device": {"name": "fan", "action": "off"}}, {... "set", "value": "50"},
\* a webhook to a host that is down, and an action on a device that is absent.
OffEntry == [kind |-> "device", name |-> "fan", action |-> "off", value |-> "none"]
Set50Entry == [kind |-> "device", name |-> "fan", action |-> "set", value |-> "50"]
DownEntry == [kind |-> "webhook", name |-> "http://down:80/x", action |-> "",
              value |-> "none"]
GhostEntry == [kind |-> "device", name |-> "ghost", action |-> "on", value |-> "none"]

\* The "action" value of an event entry: one action, or a list of actions.
WireRaws == { <<OffEntry>>, <<Set50Entry>>, <<DownEntry>>,
              <<Set50Entry, OffEntry>>, <<GhostEntry>> }
WireSources == { <<"mtx", "0_0">>, <<"mtx", "None">> }

WireEntry == WireFrom(WireSources, WireRaws)

\* Devices.__init__ has constructed the Fan "fan" and the Matrix "mtx" and is
\* about to read the events section.
InitWire ==
    /\ pc = "events"
    /\ network = FALSE
    /\ devices = ("fan" :> "Fan") @@ ("mtx" :> "Matrix")
                 @@ ("_OnboardLED" :> "OnboardLED")
    /\ groups = { "action", "fan", "mtx" }
    /\ routes = GroupRoute(GroupRoute(ApiInitRoutes, "fan", "Fan"), "mtx", "Matrix")
    /\ events = EmptyFn
    /\ log = <<>>
    /\ docIo = FALSE
    /\ declared = <<>>
    /\ chains = <<>>
    /\ wired = <<>>
    /\ KindsIdle
    /\ ApiIdle
    /\ fan = [speed |-> FanIdle, duty |-> Duty(FanIdle)]
    /\ mtx = [state |-> "None"]
    /\ pressed = {}
    /\ btn = [state |-> "off", last |-> <<>>]
    /\ btnPin = 0
    /\ task = EmptyFn
    /\ server = FALSE
    /\ ticks = 0
    /\ served = 0
    /\ lastTick = EmptyFn
    /\ lastReq = NoReq
    /\ main = "init"
    /\ calls = <<>>
    /\ meas = 0

NextWire ==
    \/ WireEntry
    \/ FinishStartup
    \/ StartLoop
    \/ MatrixPoll
    \/ MatrixDebounced
    \/ MatrixWake
    \/ Press

SpecWire == InitWire /\ [][NextWire]_vars

(***************************************************************************)
(* The stateful device kinds, one device constructed on its own            *)
(***************************************************************************)
StatefulKinds == { "ToggleButton", "MomentaryButton", "VirtualToggleButton",
                   "Switch", "RotaryEncoder", "Matrix" }

\* The class attribute _states. Switch fills it from state_pin_mapping, here
\* {"low": 1, "high": 2, "stop": "off"}; Matrix declares none and takes the
\* scanned positions and "None".
StatesOf(kind) ==
    CASE kind \in { "ToggleButton", "MomentaryButton", "VirtualToggleButton" } ->
           { "off", "on" }
      [] kind = "RotaryEncoder" -> { "increasing", "decreasing" }
      [] kind = "Switch" -> { "low", "high", "stop" }
      [] kind = "Matrix" -> { ScanOrder[i] : i \in DOMAIN ScanOrder } \cup { "None" }
      [] OTHER -> {}

\* Pin(n).value() for the pins 1 and 2 of the 2-bit input.
PinValue(p, n) == (p \div n) % 2

\* An accessor that hands out whatever _state holds, None included.
StateAccessorUnchecked(state) == [raised |-> FALSE, value |-> state]

\* StatefulDevice.state: the property raises RuntimeError while _state == None.
StateAccessor(state) ==
    IF state = Unset
    THEN [raised |-> TRUE, value |-> ""]
    ELSE [raised |-> FALSE, value |-> state]

\* Switch.__init__: the first active pin gives the state, a second active pin
\* raises; with none active the state mapped to OFF_STATE is taken.
SwitchConstruct(p) ==
    IF PinValue(p, 1) = 1 /\ PinValue(p, 2) = 1
    THEN [raised |-> TRUE, state |-> Unset]
    ELSE [raised |-> FALSE,
          state |-> IF PinValue(p, 1) = 1 THEN "low"
                    ELSE IF PinValue(p, 2) = 1 THEN "high" ELSE "stop"]

\* A manage_state that never goes back to the OFF_STATE state.
SwitchManageNoOff(state, p) ==
    IF PinValue(p, 1) = 1 /\ state # "low" THEN "low"
    ELSE IF PinValue(p, 2) = 1 /\ state # "high" THEN "high"
    ELSE state

\* Switch.manage_state: the first active pin whose state differs from the current
\* one is taken; with no pin active the OFF_STATE state is.
SwitchManage(state, p) ==
    IF PinValue(p, 1) = 1 /\ state # "low" THEN "low"
    ELSE IF PinValue(p, 2) = 1 /\ state # "high" THEN "high"
    ELSE IF PinValue(p, 1) = 0 /\ PinValue(p, 2) = 0 THEN "stop"
    ELSE state

\* MomentaryButton.toggle_state and VirtualToggleButton.toggle_state
Flip(state) == IF state = "off" THEN "on" ELSE "off"

\* RotaryEncoder.process: status = a << 1 | b, transition = last << 2 | status.
EncoderProcess(d, p) ==
    IF p = d.aux THEN d
    ELSE LET transition == d.aux * 4 + p IN
         [d EXCEPT !.aux = p,
                   !.state = IF transition = 8 THEN "decreasing"
                             ELSE IF transition = 4 THEN "increasing"
                             ELSE @]

\* The buttons of the matrix held down, read from the 2-bit input.
Held(p) == { ScanOrder[n] : n \in { i \in DOMAIN ScanOrder : PinValue(p, i) = 1 } }

\* The device as its constructor leaves it. aux is _last_state for ToggleButton
\* (-1: None), mode for MomentaryButton (1: toggle, 2: momentary) and _last_status
\* for RotaryEncoder.
KindConstructed ==
    \/ /\ sd = [kind |-> "ToggleButton", aux |-> -1,
                state |-> IF PinValue(pins, 1) = 1 THEN "on" ELSE "off"]
    \/ /\ \E mode \in { 1, 2 } :
            sd = [kind |-> "MomentaryButton", aux |-> mode,
                  state |-> IF PinValue(pins, 1) = 1 THEN "on" ELSE "off"]
    \/ /\ \E default \in { "off", "on" } :
            sd = [kind |-> "VirtualToggleButton", aux |-> 0, state |-> default]
    \/ /\ ~SwitchConstruct(pins).raised
       /\ sd = [kind |-> "Switch", aux |-> 0, state |-> SwitchConstruct(pins).state]
    \/ /\ sd = [kind |-> "RotaryEncoder", aux |-> 0, state |-> ""]
    \/ /\ sd = [kind |-> "Matrix", aux |-> 0, state |-> "None"]
    \/ /\ sd = [kind |-> "StatefulDevice", aux |-> 0, state |-> Unset]

InitKinds ==
    /\ pins \in 0..3
    /\ KindConstructed
    /\ sdTask = "ready"
    /\ lastOp = NoOp
    /\ pc = "done"
    /\ network = FALSE
    /\ devices = ("dev" :> sd.kind) @@ ("_OnboardLED" :> "OnboardLED")
    /\ groups = { "action", "dev" }
    /\ routes = GroupRoute(ApiInitRoutes, "dev", sd.kind)
    /\ events = EmptyFn
    /\ log = <<>>
    /\ docIo = FALSE
    /\ declared = <<>>
    /\ chains = <<>>
    /\ wired = <<>>
    /\ LoopsIdle
    /\ ApiIdle

KindFrame == UNCHANGED <<suVars, fan, mtx, pressed, btn, btnPin, task, server,
                         ticks, served, lastTick, lastReq, apiVars, main, calls, meas>>

\* StatefulDevice.get_state: {"state": self.state}
GetState ==
    /\ sd.kind # "none"
    /\ LET r == StateAccessor(sd.state) IN
       lastOp' = [op |-> "get_state", value |-> r.value, before |-> sd.state,
                  outcome |-> IF r.raised THEN "raised" ELSE "returned"]
    /\ UNCHANGED <<sd, pins, sdTask>>
    /\ KindFrame

\* The inputs of a polled device change.
SetInputs ==
    /\ sd.kind \notin { "none", "RotaryEncoder" }
    /\ \E p \in 0..3 : p # pins /\ pins' = p
    /\ UNCHANGED <<sd, sdTask, lastOp>>
    /\ KindFrame

\* A channel of the encoder changes; a falling edge calls process.
EncoderEdge ==
    /\ sd.kind = "RotaryEncoder"
    /\ \E p \in 0..3 :
         /\ p # pins
         /\ pins' = p
         /\ IF \E n \in { 1, 2 } : PinValue(pins, n) = 1 /\ PinValue(p, n) = 0
            THEN /\ sd' = EncoderProcess(sd, p)
                 /\ lastOp' = [op |-> "process", outcome |-> "returned",
                               value |-> sd'.state, before |-> sd.state]
            ELSE UNCHANGED <<sd, lastOp>>
    /\ UNCHANGED sdTask
    /\ KindFrame

\* _loop of BaseDevice, VirtualToggleButton and RotaryEncoder: returns at once.
ShortLoop ==
    /\ sd.kind \in { "VirtualToggleButton", "RotaryEncoder", "StatefulDevice" }
    /\ sdTask = "ready"
    /\ sdTask' = "returned"
    /\ UNCHANGED <<sd, pins, lastOp>>
    /\ KindFrame

\* What the tick of a polling kind does up to the await of manage_state().
\* manage_state is toggle_state (a str is awaited) for ToggleButton and for
\* MomentaryButton in toggle mode, is missing for MomentaryButton in momentary
\* mode (AttributeError), returns None for Switch (TypeError) and is a coroutine
\* for Matrix only.
KindPoll ==
    /\ sdTask = "ready"
    /\ \/ /\ sd.kind = "ToggleButton"
          /\ LET b == ToggleState([state |-> sd.state,
                                   last |-> IF sd.aux = -1 THEN <<>> ELSE <<sd.aux>>],
                                  PinValue(pins, 1))
             IN sd' = [sd EXCEPT !.state = b.state, !.aux = b.last[1]]
          /\ sdTask' \in AwaitNonAwaitable
       \/ /\ sd.kind = "MomentaryButton"
          /\ PinValue(pins, 1) = 1
          /\ IF sd.aux = 1
             THEN /\ sd' = [sd EXCEPT !.state = Flip(@)]
                  /\ sdTask' \in AwaitNonAwaitable
             ELSE /\ sd' = sd
                  /\ sdTask' = "raised"
       \/ /\ sd.kind = "Switch"
          /\ sd' = [sd EXCEPT !.state = SwitchManage(@, pins)]
          /\ sdTask' = "raised"
       \/ /\ sd.kind = "Matrix"
          /\ sd' = [sd EXCEPT !.state = Scan(Held(pins))]
          /\ sdTask' = "ready"
    /\ lastOp' = [op |-> "poll", outcome |-> sdTask', value |-> sd'.state,
                  before |-> sd.state]
    /\ UNCHANGED pins
    /\ KindFrame

\* VirtualToggleButton.on / off through the API: process_events is entered when
\* the state is the opposite one, and self.manage_state does not exist.
VirtualSwitch ==
    /\ sd.kind = "VirtualToggleButton"
    /\ \E op \in { "on", "off" } :
         lastOp' = [op |-> op, value |-> sd.state, before |-> sd.state,
                    outcome |-> IF sd.state = Flip(op) THEN "raised" ELSE "returned"]
    /\ UNCHANGED <<sd, pins, sdTask>>
    /\ KindFrame

\* Switch.manage_state invoked as the step of a chain or as a device action:
\* _curry and DeviceAction.__call__ call the method, which changes the state and
\* returns None, and await what it returned, which raises.
ManageCall ==
    /\ sd.kind = "Switch"
    /\ sd' = [sd EXCEPT !.state = SwitchManage(@, pins)]
    /\ lastOp' = [op |-> "manage_state", outcome |-> "raised", value |-> sd'.state,
                  before |-> sd.state, pins |-> pins]
    /\ UNCHANGED <<pins, sdTask>>
    /\ KindFrame

NextKinds ==
    \/ ManageCall
    \/ GetState
    \/ SetInputs
    \/ EncoderEdge
    \/ ShortLoop
    \/ KindPoll
    \/ VirtualSwitch

SpecKinds == InitKinds /\ [][NextKinds]_vars

(***************************************************************************)
(* The API object: registrations, documentation, then requests             *)
(***************************************************************************)
\* del self._doc
Deleted == << [base |-> "<deleted>", endpoints |-> <<>>] >>

\* self._doc[base_route].append((route, desc)), the list created when absent
DocAppend(doc, base, path) ==
    IF \E i \in DOMAIN doc : doc[i].base = base
    THEN [i \in DOMAIN doc |->
             IF doc[i].base = base
             THEN [doc[i] EXCEPT !.endpoints = Append(@, path)]
             ELSE doc[i]]
    ELSE Append(doc, [base |-> base, endpoints |-> << path >>])

\* A registration that keeps the handler a path already has.
RegisterRouteFirstWins(table, doc, path, handler, documented) ==
    [routes |-> IF path \in DOMAIN table THEN table ELSE ApiRoute(table, path, handler),
     doc |-> IF documented /\ doc # Deleted THEN DocAppend(doc, path[1], path) ELSE doc,
     raised |-> documented /\ doc = Deleted]

\* _wrap_func of EndpointGroup.route and of API.route (show_docs set): the
\* handler is stored under the route, then a documented route is added to _doc,
\* which raises AttributeError once _doc has been deleted.
RegisterRoute(table, doc, path, handler, documented) ==
    [routes |-> ApiRoute(table, path, handler),
     doc |-> IF documented /\ doc # Deleted THEN DocAppend(doc, path[1], path) ELSE doc,
     raised |-> documented /\ doc = Deleted]

\* The text written for the base routes of _doc, in order: the header of a base
\* route needs its endpoint group, and a base route without one raises KeyError
\* with the text written so far left in the buffer.
RECURSIVE DocBody(_, _)
DocBody(doc, grps) ==
    IF doc = <<>> THEN [text |-> <<>>, raised |-> FALSE]
    ELSE IF Head(doc).base \notin grps THEN [text |-> <<>>, raised |-> TRUE]
    ELSE LET rest == DocBody(Tail(doc), grps)
             one == << [item |-> "base", path |-> << Head(doc).base >>] >>
                    \o [k \in DOMAIN Head(doc).endpoints |->
                           [item |-> "endpoint", path |-> Head(doc).endpoints[k]]]
                    \o << [item |-> "/base", path |-> << Head(doc).base >>] >>
         IN [text |-> one \o rest.text, raised |-> rest.raised]

\* A documentation property that writes the text at every access.
DocumentationUnguarded(isSet, text, doc, grps) ==
    LET body == DocBody(IF doc = Deleted THEN <<>> ELSE doc, grps) IN
    [isSet |-> TRUE,
     text |-> (text \o << [item |-> "<div>", path |-> <<>>] >>) \o body.text
              \o << [item |-> "</div", path |-> <<>>] >>,
     doc |-> Deleted,
     raised |-> FALSE]

\* API.documentation: generated when _doc_io is None (show_docs is set), _doc is
\* deleted afterwards; otherwise the buffer is handed back as it is.
Documentation(isSet, text, doc, grps) ==
    IF isSet
    THEN [isSet |-> TRUE, text |-> text, doc |-> doc, raised |-> FALSE]
    ELSE LET body == DocBody(doc, grps) IN
         IF body.raised
         THEN [isSet |-> TRUE,
               text |-> << [item |-> "<div>", path |-> <<>>] >> \o body.text,
               doc |-> doc, raised |-> TRUE]
         ELSE [isSet |-> TRUE,
               text |-> (<< [item |-> "<div>", path |-> <<>>] >> \o body.text)
                        \o << [item |-> "</div", path |-> <<>>] >>,
               doc |-> Deleted, raised |-> FALSE]

\* The device entries and the chain of the configuration: a Fan, a DHT22 whose
\* name is that of the documentation route, a VirtualToggleButton.
DocNames == { "fan", "docs", "vb" }
DocKind(name) ==
    CASE name = "fan" -> "Fan" [] name = "docs" -> "DHT22" [] OTHER -> "VirtualToggleButton"

\* The routes a constructor registers on its group, in order; "" is the route
\* of the group itself.
RouteOrder(kind) ==
    CASE kind = "Fan" -> << "on", "off", "set" >>
      [] kind = "DHT22" -> << "" >>
      [] kind = "VirtualToggleButton" -> << "state", "on", "off" >>
      [] OTHER -> << >>

\* "".join(["/" + self.name, path])
GroupPath(name, sub) == IF sub = "" THEN << name >> ELSE << name, sub >>

Registration(path, handler, documented, r) ==
    [path |-> path, handler |-> handler, documented |-> documented,
     raised |-> r.raised]

\* The registrations of one constructor, applied in order to (routes, doc, log).
RECURSIVE GroupRoutesInOrder(_, _, _)
GroupRoutesInOrder(acc, name, subs) ==
    IF subs = <<>> THEN acc
    ELSE LET path == GroupPath(name, Head(subs))
             handler == Handler(name, IF Head(subs) = "" THEN "data" ELSE Head(subs), <<>>)
             r == RegisterRoute(acc.routes, acc.doc, path, handler, TRUE)
         IN GroupRoutesInOrder(
               [routes |-> r.routes, doc |-> r.doc,
                log |-> Append(acc.log, Registration(path, handler, TRUE, r))],
               name, Tail(subs))

\* API.__init__: favicon.ico, docs and logs are registered undocumented.
ApiInitLog ==
    << [path |-> <<"favicon.ico">>, handler |-> Handler("api", "favicon_ico", <<>>),
        documented |-> FALSE, raised |-> FALSE],
       [path |-> <<"docs">>, handler |-> Handler("api", "docs", <<>>),
        documented |-> FALSE, raised |-> FALSE],
       [path |-> <<"logs">>, handler |-> Handler("api", "logs", <<>>),
        documented |-> FALSE, raised |-> FALSE] >>

InitDocs ==
    /\ pc = "devices"
    /\ network = TRUE
    /\ devices = EmptyFn
    /\ groups = { "action" }
    /\ routes = ApiInitRoutes
    /\ events = EmptyFn
    /\ log = <<>>
    /\ docIo = FALSE
    /\ declared = <<>>
    /\ chains = <<>>
    /\ wired = <<>>
    /\ KindsIdle
    /\ apiDoc = <<>>
    /\ docText = <<>>
    /\ regLog = ApiInitLog
    /\ showDocs = TRUE
    /\ fan = [speed |-> FanIdle, duty |-> Duty(FanIdle)]
    /\ mtx = [state |-> "None"]
    /\ pressed = {}
    /\ btn = [state |-> "off", last |-> <<>>]
    /\ btnPin = 0
    /\ task = EmptyFn
    /\ server = FALSE
    /\ ticks = 0
    /\ served = 0
    /\ lastTick = EmptyFn
    /\ lastReq = NoReq
    /\ main = "init"
    /\ calls = <<>>
    /\ meas = 0

DocFrame == UNCHANGED <<network, events, declared, chains, wired, mtx, pressed,
                        btn, btnPin, task, ticks, lastTick, kindVars, showDocs>>

\* A device entry is constructed: BaseDevice.__init__ registers the endpoint
\* group, the constructor its routes.
DocDevice ==
    /\ pc = "devices"
    /\ \E name \in DocNames \ DOMAIN devices :
         LET r == GroupRoutesInOrder([routes |-> routes, doc |-> apiDoc, log |-> regLog],
                                     name, RouteOrder(DocKind(name)))
         IN /\ devices' = devices @@ (name :> DocKind(name))
            /\ groups' = groups \cup { name }
            /\ routes' = r.routes
            /\ apiDoc' = r.doc
            /\ regLog' = r.log
    /\ UNCHANGED <<pc, log, docIo, docText, fan, server, served, lastReq, main, calls, meas>>
    /\ DocFrame

\* The chain "c1" is registered: api.route("/action/c1")(...), documented.
DocChain ==
    /\ pc = "devices"
    /\ "fan" \in DOMAIN devices
    /\ LET path == << "action", "c1" >>
           handler == Handler("chain", "c1", << FanOffAction >>)
           r == RegisterRoute(routes, apiDoc, path, handler, TRUE)
       IN /\ routes' = r.routes
          /\ apiDoc' = r.doc
          /\ regLog' = Append(regLog, Registration(path, handler, TRUE, r))
    /\ pc' = "events"
    /\ UNCHANGED <<devices, groups, log, docIo, docText, fan, server, served, lastReq,
                   main, calls, meas>>
    /\ DocFrame

\* The end of Devices.__init__ (api.documentation is accessed), then
\* Devices.loop starts the request server.
DocFinish ==
    /\ pc \in { "devices", "events" }
    /\ LET d == Documentation(docIo, docText, apiDoc, groups) IN
       /\ docIo' = d.isSet
       /\ docText' = d.text
       /\ apiDoc' = d.doc
       /\ pc' = IF d.raised THEN "aborted" ELSE "done"
       /\ server' = ~d.raised
       /\ main' = IF d.raised THEN "init" ELSE "idle"
       /\ UNCHANGED <<calls, meas>>
    /\ UNCHANGED <<devices, groups, routes, log, regLog, fan, served, lastReq>>
    /\ DocFrame

DocPaths == { << "docs" >>, << "fan", "on" >>, << "action", "c1" >>, << "nope" >> }

\* A request served by route_requests; the handler docs returns
\* self.documentation.
DocRequest ==
    /\ server
    /\ served < MaxRequests
    /\ served' = served + 1
    /\ \E path \in DocPaths :
         LET d == Dispatch(routes, path, "none", fan)
             resp == Respond(path, d)
             isDocs == path \in DOMAIN routes /\ routes[path] = Handler("api", "docs", <<>>)
             doc == IF isDocs THEN Documentation(docIo, docText, apiDoc, groups)
                    ELSE [isSet |-> docIo, text |-> docText, doc |-> apiDoc,
                          raised |-> FALSE]
         IN /\ fan' = d.call.fan
            /\ log' = (log \o d.call.errors) \o resp.entries
            /\ lastReq' = resp @@ [value |-> "none",
                                    prev |-> <<lastReq.path, lastReq.value>>,
                                    fanBefore |-> fan,
                                    handler |-> IF path \in DOMAIN routes
                                                THEN << routes[path] >> ELSE << >>,
                                    result |-> d.call.result]
            /\ docIo' = doc.isSet
            /\ docText' = doc.text
            /\ apiDoc' = doc.doc
    /\ UNCHANGED <<pc, devices, groups, routes, regLog, server, main, calls, meas>>
    /\ DocFrame

NextDocs ==
    \/ DocDevice
    \/ DocChain
    \/ DocFinish
    \/ DocRequest

SpecDocs == InitDocs /\ [][NextDocs]_vars

(***************************************************************************)
(* API.route and EndpointGroup.route, with and without documentation       *)
(***************************************************************************)
\* API.__init__(logger, show_docs): favicon.ico, docs and logs are registered
\* through self.route, docs only if show_docs is set.
ApiInitOf(show) == IF show THEN ApiInitRoutes ELSE EmptyFn

\* The decorator returned by API.route: the registering _wrap_func if show_docs
\* is set, and otherwise one that returns the endpoint and stores nothing.
ApiRouteWrap(show, table, doc, path, handler, documented) ==
    IF show THEN RegisterRoute(table, doc, path, handler, documented)
    ELSE [routes |-> table, doc |-> doc, raised |-> FALSE]

RoutePaths == { << "action", "c1" >>, << "fan", "on" >>, << "fan", "set" >> }

\* An API object constructed with show_docs set or not, and the endpoint group
\* "fan" registered on it.
InitRoute ==
    /\ pc = "devices"
    /\ network = TRUE
    /\ devices = EmptyFn
    /\ groups = { "action", "fan" }
    /\ showDocs \in BOOLEAN
    /\ routes = ApiInitOf(showDocs)
    /\ events = EmptyFn
    /\ log = <<>>
    /\ docIo = FALSE
    /\ declared = <<>>
    /\ chains = <<>>
    /\ wired = <<>>
    /\ KindsIdle
    /\ apiDoc = <<>>
    /\ docText = <<>>
    /\ regLog = <<>>
    /\ LoopsIdle

\* api.route(path, doc)(endpoint), or group.route(sub, doc)(endpoint) on the
\* group of the path.
RouteCall ==
    /\ Len(calls) < MaxCalls
    /\ \E via \in { "api", "group" }, path \in RoutePaths, documented \in BOOLEAN :
         LET handler == Handler(path[1], path[2], <<>>)
             r == IF via = "api"
                  THEN ApiRouteWrap(showDocs, routes, apiDoc, path, handler, documented)
                  ELSE RegisterRoute(routes, apiDoc, path, handler,
                                     documented /\ showDocs)
         IN /\ path[1] \in groups
            /\ routes' = r.routes
            /\ apiDoc' = r.doc
            /\ calls' = Append(calls, [op |-> "route", via |-> via, path |-> path,
                                       documented |-> documented])
    /\ UNCHANGED <<pc, network, devices, groups, events, log, docIo, declared, chains,
                   wired>>
    /\ UNCHANGED <<fan, mtx, pressed, btn, btnPin, task, server, ticks, served,
                   lastTick, lastReq, kindVars, docText, regLog, showDocs, main, meas>>

NextRoute == RouteCall

SpecRoute == InitRoute /\ [][NextRoute]_vars

(***************************************************************************)
(* Properties of the device loops (Spec)                                   *)
(***************************************************************************)
Polling == { "mtx", "btn" }

\* C1: when a bound action raises during a polling device's tick, the exception
\* does not leave the device's _loop: the loop task is still alive (sleeping,
\* or about to poll again) and the device keeps polling.
C1_ActionErrorContained ==
    \A d \in Polling \cap DOMAIN task :
        lastTick[d].raised => task[d] \in { "sleep", "ready", "debounce" }

\* C2: on a poll tick whose state recompute left the state as it was, no bound
\* action is executed.
C2_ActionsOnlyOnChange ==
    \A d \in Polling \cap DOMAIN task :
        ~lastTick[d].changed => lastTick[d].ran = <<>>

\* The step ends a tick of device d: its bound actions have been run.
TickEnds(d) ==
    /\ d \in DOMAIN task
    /\ task[d] \in { "ready", "debounce" }
    /\ task'[d] \in { "sleep", "raised" }

IsPrefix(a, b) == Len(a) <= Len(b) /\ \A i \in DOMAIN a : a[i] = b[i]

C13Step ==
    /\ mtx' # mtx =>
          /\ fan' = fan
          /\ log' = log
          /\ lastTick'["mtx"].ran = <<>>
          /\ task'["mtx"] = "debounce"
    /\ btn' # btn => (fan' = fan /\ log' = log)
    /\ TickEnds("mtx") =>
          /\ mtx' = mtx
          /\ IsPrefix(lastTick'["mtx"].ran, Bound(events, "mtx", mtx'.state))
          /\ ~lastTick'["mtx"].raised =>
                lastTick'["mtx"].ran = Bound(events, "mtx", mtx'.state)

\* C13: within one tick of a device's loop the recompute of the state is over
\* before any bound action of the tick starts (the step that stores the state
\* runs no action), and the actions the tick runs are those bound to the state
\* as the recompute left it.
C13_RecomputeBeforeActions == [][C13Step]_vars

\* A tick that found key 0_0 newly held and ran the actions bound to "0_0".
C13_Witness ==
    /\ "mtx" \in DOMAIN lastTick
    /\ lastTick["mtx"].changed
    /\ mtx.state = "0_0"
    /\ lastTick["mtx"].ran # <<>>
    /\ Bound(events, "mtx", "0_0") # Bound(events, "mtx", "None")

\* The fan as a list of actions leaves it when each action is called only after
\* the one before it has returned.
RECURSIVE FanAfter(_, _)
FanAfter(list, f) ==
    IF list = <<>> THEN f
    ELSE FanAfter(Tail(list), ExecAction(Head(list), f).fan)

C14Step ==
    TickEnds("mtx") =>
        LET t == lastTick'["mtx"]
            bound == Bound(events, "mtx", mtx'.state)
        IN /\ t.ran = SubSeq(bound, 1, Len(t.ran))
           /\ fan' = FanAfter(t.ran, fan)
           /\ \A i \in 1..(Len(t.ran) - 1) :
                 ~ExecAction(t.ran[i], FanAfter(SubSeq(t.ran, 1, i - 1), fan)).raised
           /\ IF t.raised
              THEN ExecAction(t.ran[Len(t.ran)],
                              FanAfter(SubSeq(t.ran, 1, Len(t.ran) - 1), fan)).raised
              ELSE Len(t.ran) = Len(bound)

\* C14: the actions of one bound list, once a tick reaches the list, are executed
\* strictly one after another in list order: the actions started are a leading part of the list, each starts
\* from what the one before it left, and none starts after one has raised.
C14_SequentialInListOrder == [][C14Step]_vars

\* A tick that ran two actions whose order shows in the fan: off, then on.
C14_Witness ==
    /\ "mtx" \in DOMAIN lastTick
    /\ lastTick["mtx"].ran = << FanOffAction, FanOnAction >>
    /\ fan.duty = Duty(fan.speed)

\* The positions of a task that has ended: its coroutine returned, raised, or
\* is never resumed.
Ended == { "returned", "raised", "stalled" }

C24Step ==
    /\ (main = "init" /\ main' = "idle") =>
          /\ server' = network
          /\ DOMAIN task' = DOMAIN devices
          /\ \A d \in DOMAIN task' : task'[d] = "ready"
    /\ main = "idle" =>
          /\ main' = "idle"
          /\ DOMAIN task' = DOMAIN devices
          /\ server' = network
          /\ events' = events
          /\ devices' = devices

\* C24: Devices.loop starts the request server exactly when a network is
\* configured and one task for each device of the registry, and then idles:
\* from then on, whatever becomes of the device tasks, the loop stays idle, the
\* server stays as started and no task is added or removed.
C24_LoopStartsTasksAndIdles == [][C24Step]_vars

\* With a network configured, the fan's task has returned and the matrix task
\* has ended with an exception while Devices.loop idles and the server is up.
C24_Witness ==
    /\ main = "idle"
    /\ network /\ server
    /\ task["fan"] = "returned"
    /\ task["mtx"] = "raised"

\* The step ends the task of device d.
TaskEnds(d) == d \in DOMAIN task /\ task[d] \notin Ended /\ task'[d] \in Ended

C25Step ==
    \A d \in DOMAIN task :
        TaskEnds(d) =>
            /\ \A e \in DOMAIN task \ { d } : task'[e] = task[e]
            /\ server' = server
            /\ main' = main

\* The position of the task of device d, "none" before Devices.loop has run.
Position(d) == IF d \in DOMAIN task THEN task[d] ELSE "none"

SomeTaskEnded == \E d \in DOMAIN task : task[d] \in Ended
EndedTask(d) == d \in DOMAIN task /\ task[d] \in Ended

\* C25: the end of one device's task (returned, raised or never resumed) leaves
\* the task of every other device and the request server as they were, and
\* under fair scheduling they go on: with the button's task ended, the matrix
\* wakes from its sleep, polls and ends its debounce; with the matrix task
\* ended, the button polls; and with any task ended, the requests that arrive
\* are served.
C25_OtherTasksGoOn ==
    /\ [][C25Step]_vars
    /\ (EndedTask("btn") /\ Position("mtx") = "sleep") ~> (Position("mtx") = "ready")
    /\ (EndedTask("btn") /\ Position("mtx") = "ready" /\ ticks < MaxTicks)
          ~> (Position("mtx") # "ready")
    /\ (EndedTask("btn") /\ Position("mtx") = "debounce") ~> (Position("mtx") # "debounce")
    /\ (EndedTask("mtx") /\ Position("btn") = "ready" /\ ticks < MaxTicks)
          ~> (Position("btn") # "ready")
    /\ (SomeTaskEnded /\ server /\ served < MaxRequests) ~> (served = MaxRequests)

\* The matrix task has ended with the exception of fan.set; after that the
\* button has polled and a request has been served.
C25_Witness ==
    /\ "mtx" \in DOMAIN task
    /\ task["mtx"] = "raised"
    /\ lastTick["mtx"].raised
    /\ task["btn"] \in Ended
    /\ served = MaxRequests
    /\ ticks = MaxTicks

\* The event table holds no action for the pair: no entry for the device, none
\* for the state, or an empty list.
NothingBound(d, state) ==
    \/ d \notin DOMAIN events
    \/ state \notin DOMAIN events[d]
    \/ events[d][state] = <<>>

\* C19: when a polling stateful device has made a tick in a state for which the
\* event table holds an empty list, no entry for the state or no entry for the
\* device, process_events has executed no action and has raised no error.
C19_EmptyBindingNoEffect ==
    \A d \in Polling \cap DOMAIN task :
        ( /\ task[d] \in { "sleep", "raised", "stalled" }
          /\ NothingBound(d, IF d = "mtx" THEN mtx.state ELSE btn.state) )
        => /\ lastTick[d].ran = <<>>
           /\ ~lastTick[d].raised
           /\ task[d] # "raised"

\* C16: with the binding (btn, "on") -> [fan.on], once the input of the button
\* has gone from low to high and the button has made its next poll tick, the
\* tick has invoked the on operation of the fan.
C16_ButtonOnTurnsFanOn ==
    ( /\ "btn" \in DOMAIN lastTick
      /\ lastTick["btn"].changed
      /\ btn.state = "on"
      /\ Bound(events, "btn", "on") = << FanOnAction >> )
    => lastTick["btn"].ran = << FanOnAction >>

(***************************************************************************)
(* Properties of Devices.__init__ (SpecStartup)                            *)
(***************************************************************************)
Declared == DOMAIN declared
PastDevices == pc \in { "chains", "events", "done" }

\* C3: in a configuration in which a device entry's construction raises, startup
\* completes (it is never aborted), the name of that entry is absent from the
\* registry and every entry whose construction succeeds is present.
C3_ConstructionFailureIsolated ==
    (\E i \in Declared : declared[i].raised) =>
        /\ pc # "aborted"
        /\ PastDevices =>
              \A i \in Declared :
                 IF declared[i].raised
                 THEN declared[i].name \notin DOMAIN devices
                 ELSE declared[i].name \in DOMAIN devices

\* C4: an entry whose declared type is not in DEVICE_MAP yields no device:
\* startup is not aborted, an error naming the type is logged, and once the
\* entries are read that name is absent and the other entries are constructed.
C4_UnknownKindSkipped ==
    \A i \in Declared :
        declared[i].type \notin DEVICE_MAP =>
            /\ pc # "aborted"
            /\ \E k \in DOMAIN log :
                  log[k].level = "error" /\ declared[i].type \in log[k].names
            /\ PastDevices => declared[i].name \notin DOMAIN devices

\* The actions the event table holds for the pairs named by the entries read.
WiredOk(i) == ActionConstructs(wired[i].spec, devices)

\* C5: an event entry whose action names an unknown device, an unknown operation
\* or an unknown action kind is dropped: startup is not aborted, and every other
\* entry read is bound in the event table.
C5_BadEventDropped ==
    (\E i \in DOMAIN wired : ~WiredOk(i)) =>
        /\ pc # "aborted"
        /\ \A j \in DOMAIN wired :
              WiredOk(j) =>
                 \E k \in DOMAIN Bound(events, wired[j].device, wired[j].state) :
                    Bound(events, wired[j].device, wired[j].state)[k]
                       = ActionInstance(wired[j].spec)

ChainRoute(i) == <<"chain", chains[i].name>>

ChainErrors(i) ==
    { k \in (chains[i].logFrom + 1)..chains[i].logTo : log[k].level = "error" }

ExactlyOneErrorNaming(i) ==
    /\ Cardinality(ChainErrors(i)) = 1
    /\ \A k \in ChainErrors(i) : chains[i].name \in log[k].names

\* C7 as amended: compiling a chain whose first step that does not resolve names
\* a nonexistent device logs exactly one error-level entry, and it names the chain.
C7_MissingDeviceLoggedOnce ==
    \A i \in DOMAIN chains :
        chains[i].firstFail = "device" => ExactlyOneErrorNaming(i)

\* C7 as stated: compiling a chain that references a nonexistent device logs
\* exactly one error-level entry, and that entry names the chain.
C7_Original ==
    \A i \in DOMAIN chains :
        chains[i].refsMissing => ExactlyOneErrorNaming(i)

\* A chain whose second step names a nonexistent device, the first having resolved.
C7_Witness ==
    \E i \in DOMAIN chains :
        /\ chains[i].firstFail = "device"
        /\ chains[i].partial
        /\ Cardinality(ChainErrors(i)) = 1

(***************************************************************************)
(* Properties of API.route_requests (SpecApi)                              *)
(***************************************************************************)
Handled == lastReq.outcome # "none"

\* C8: for every request handled, whatever its outcome, exactly one log entry
\* carrying the path, the status code and the peer address is emitted, and the
\* status line, one content-type header and the body are written before the
\* connection is closed.
C8_EveryRequestLoggedAndAnswered ==
    Handled =>
        /\ Len(lastReq.entries) = 1
        /\ \A k \in DOMAIN lastReq.entries :
              /\ lastReq.entries[k].route = lastReq.path
              /\ lastReq.entries[k].status = lastReq.status
              /\ lastReq.entries[k].source = Peer
        /\ lastReq.wrote = <<"status", "content-type", "body">>
        /\ lastReq.closed

\* C9: a request for a path that is not in the route table is answered with
\* status 404 and logs exactly one error-level entry naming that path.
C9_MissingPathIs404 ==
    (Handled /\ lastReq.path \notin DOMAIN routes) =>
        /\ lastReq.status = 404
        /\ Cardinality({ k \in DOMAIN lastReq.entries :
                            /\ lastReq.entries[k].level = "error"
                            /\ lastReq.entries[k].route = lastReq.path }) = 1

\* C10: if the registered handler raises while serving a request, the client
\* receives a response with status 500, the error is logged at error level, and
\* the server goes on serving.
C10_HandlerErrorIs500 ==
    (Handled /\ lastReq.handlerRaised) =>
        /\ lastReq.status = 500
        /\ "status" \in { lastReq.wrote[k] : k \in DOMAIN lastReq.wrote }
        /\ \E k \in DOMAIN lastReq.entries : lastReq.entries[k].level = "error"
        /\ server

(***************************************************************************)
(* Properties of chains invoked over the API (SpecApi)                     *)
(***************************************************************************)
ChainPath == <<"chain", "c1">>

\* The duties the steps of a list write to the PWM of the fan, in order, when
\* the list is run on the fan f: one write for each step that returns.
RECURSIVE DutyWrites(_, _)
DutyWrites(list, f) ==
    IF list = <<>> THEN <<>>
    ELSE LET r == ExecAction(Head(list), f) IN
         IF r.raised THEN <<>>
         ELSE << r.fan.duty >> \o DutyWrites(Tail(list), r.fan)

\* This step is the second of two requests for the chain in succession, both
\* without a query.
ChainAgain ==
    /\ served' = served + 1
    /\ lastReq.path = ChainPath /\ lastReq.value = "none"
    /\ lastReq'.path = ChainPath /\ lastReq'.value = "none"

\* The second invocation answers as the first did.
SameResult ==
    /\ lastReq'.outcome = lastReq.outcome
    /\ lastReq'.status = lastReq.status
    /\ lastReq'.wrote = lastReq.wrote
    /\ lastReq'.handlerRaised = lastReq.handlerRaised
    /\ lastReq'.entries = lastReq.entries

\* C18 (as the code has it): a chain of fan on / off / set steps invoked twice
\* in succession, with nothing in between, leaves the fan after the second
\* invocation as the first left it (speed and duty), and the second request is
\* answered as the first was.
C18Step == ChainAgain => (fan' = fan /\ SameResult)
C18_ChainTwiceSameStateAndResult == [][C18Step]_vars

\* C18 (as stated): the two invocations have the same externally observed
\* device side effects, the duties written to the fan's PWM, and the same
\* result.
C18OriginalStep ==
    ChainAgain =>
        /\ DutyWrites(routes[ChainPath].steps, fan)
              = DutyWrites(routes[ChainPath].steps, lastReq.fanBefore)
        /\ SameResult
C18_ChainTwiceSameWrites == [][C18OriginalStep]_vars

\* The chain [fan.on, fan.set 50] has been invoked twice in succession; the
\* first invocation took the fan from its idle speed to 50.
C18_Witness ==
    /\ served = 2
    /\ lastReq.path = ChainPath /\ lastReq.value = "none"
    /\ lastReq.prev = <<ChainPath, "none">>
    /\ routes[ChainPath].steps = <<FanOnAction, FanSet50Action>>
    /\ lastReq.fanBefore = [speed |-> 50, duty |-> Duty(50)]
    /\ fan = lastReq.fanBefore

\* C21: a set request with a value outside 0..100 is clamped or rejected, so
\* that after any sequence of set / on / off calls the stored speed of the fan
\* is within 0..100 and the duty written to the PWM within 0..max_duty_cycle.
C21_FanWithinRange ==
    /\ fan.speed \in 0..100
    /\ fan.duty \in 0..MaxDutyCycle

(***************************************************************************)
(* Properties of wiring and triggering (SpecWire)                          *)
(***************************************************************************)
\* The i-th event entry read names the pair (device, state).
Names(i, device, state) == wired[i].device = device /\ wired[i].state = state

\* The actions of the first i event entries that name the pair, in the order
\* of the entries and, within an entry, of its list.
RECURSIVE DeclaredActions(_, _, _)
DeclaredActions(i, device, state) ==
    IF i = 0 THEN <<>>
    ELSE DeclaredActions(i - 1, device, state)
         \o (IF Names(i, device, state)
             THEN [k \in DOMAIN wired[i].raw |->
                      [kind |-> wired[i].raw[k].kind, name |-> wired[i].raw[k].name,
                       action |-> wired[i].raw[k].action,
                       value |-> wired[i].raw[k].value]]
             ELSE <<>>)

\* C15: while and after the events are wired, the list the event table holds for
\* every (device, state) pair is the concatenation, in declaration order, of the
\* actions of every entry read that names the pair; a pair no entry names has no
\* list, and a device no entry names has no table.
C15_TableIsConcatenation ==
    pc \in { "events", "done" } =>
        /\ \A d \in DOMAIN events : \A st \in DOMAIN events[d] :
              events[d][st] = DeclaredActions(Len(wired), d, st)
        /\ \A d \in { "mtx", "btn", "fan" }, st \in { "0_0", "0_1", "None", "on" } :
              (d \in DOMAIN events /\ st \in DOMAIN events[d])
                 <=> \E i \in DOMAIN wired : Names(i, d, st)

\* Two entries name the same pair, the first with a list of two actions, and the
\* wiring is over: the pair holds three actions and the other pair none.
C15_Witness ==
    /\ pc = "done"
    /\ Len(wired) = 2
    /\ Names(1, "mtx", "0_0") /\ Names(2, "mtx", "0_0")
    /\ wired[1].raw = << Set50Entry, OffEntry >>
    /\ wired[2].raw = << DownEntry >>
    /\ Len(events["mtx"]["0_0"]) = 3
    /\ "None" \notin DOMAIN events["mtx"]

\* The pair is named by exactly one entry, which holds exactly one action.
SoleEntry(i, device, state) ==
    /\ Names(i, device, state)
    /\ Len(wired[i].raw) = 1
    /\ \A j \in DOMAIN wired : Names(j, device, state) => j = i

C17Step ==
    \A i \in DOMAIN wired :
        ( /\ TickEnds("mtx")
          /\ SoleEntry(i, "mtx", mtx'.state)
          /\ wired[i].raw[1].kind = "device" )
        => LET e == wired[i].raw[1]
               direct == FanCall(fan, e.action, e.value)
           IN /\ fan' = direct.fan
              /\ lastTick'["mtx"].raised = direct.raised
              /\ log' = log
              /\ UNCHANGED <<pc, network, devices, groups, routes, events, docIo,
                             mtx, pressed, btn, btnPin, server>>

\* C17: executing the action compiled from an entry {device X, action Y,
\* value Z} leaves X as the direct call of Y on X with the argument Z leaves it
\* (raising when the call raises), and changes nothing else.
C17_ActionEqualsDirectCall == [][C17Step]_vars

\* The action compiled from {fan, set, value 50} has run: the fan is at 50.
C17_Witness ==
    /\ "mtx" \in DOMAIN lastTick
    /\ lastTick["mtx"].ran = << Set50Entry >>
    /\ ~lastTick["mtx"].raised
    /\ fan = [speed |-> 50, duty |-> Duty(50)]

\* The first two entries name the pair: a webhook to a host that is down, then
\* one device action.
DownThenDevice(device, state) ==
    /\ Len(wired) >= 2
    /\ Names(1, device, state) /\ Names(2, device, state)
    /\ wired[1].raw = << DownEntry >>
    /\ Len(wired[2].raw) = 1
    /\ wired[2].raw[1].kind = "device"

C20Step ==
    (TickEnds("mtx") /\ DownThenDevice("mtx", mtx'.state)) =>
        LET t == lastTick'["mtx"]
            second == wired[2].raw[1]
            r == FanCall(fan, second.action, second.value)
        IN /\ Len(t.ran) >= 2
           /\ t.ran[1].kind = "webhook"
           /\ t.ran[2].name = second.name /\ t.ran[2].action = second.action
           /\ Len(log') > Len(log)
           /\ log'[Len(log) + 1].level = "error"
           \* with no entry after the second, the tick ends as the second did
           /\ Len(events["mtx"][mtx'.state]) = 2 =>
                 (Len(t.ran) = 2 /\ fan' = r.fan /\ t.raised = r.raised)
           \* actions of later entries run only after the second has returned
           /\ Len(t.ran) > 2 => ~r.raised

\* C20: with two event entries for the same pair, the first a webhook whose host
\* is unreachable, a trigger of the pair logs one error for the webhook without
\* raising and goes on to execute the action of the second entry.
C20_UnreachableWebhookThenSecond == [][C20Step]_vars

\* The webhook failed, then fan.off of the second entry stopped the fan.
C20_Witness ==
    /\ "mtx" \in DOMAIN lastTick
    /\ Len(lastTick["mtx"].ran) = 2
    /\ lastTick["mtx"].ran[1].kind = "webhook"
    /\ lastTick["mtx"].ran[2].action = "off"
    /\ fan.duty = Duty(0)
    /\ \E k \in DOMAIN log : log[k].level = "error"

(***************************************************************************)
(* Properties of the stateful device kinds (SpecKinds)                     *)
(***************************************************************************)
\* C11: for every stateful device kind, in every state reachable after
\* construction, the current state of the device is a member of the fixed
\* state enumeration of its kind.
C11_StateInEnumeration ==
    sd.kind \in StatefulKinds => sd.state \in StatesOf(sd.kind)

\* C12: reading the state of a stateful device through get_state raises (and
\* returns no value) exactly when no state has been assigned yet; once a state
\* is assigned, the read returns it.
C12_UnsetStateRaises ==
    lastOp.op = "get_state" =>
        /\ lastOp.before = Unset => (lastOp.outcome = "raised" /\ lastOp.value = "")
        /\ lastOp.before # Unset =>
              (lastOp.outcome = "returned" /\ lastOp.value = lastOp.before)

\* get_state was called on a device whose _state is still None, and raised.
C12_Witness ==
    /\ lastOp.op = "get_state"
    /\ sd.state = Unset
    /\ lastOp.outcome = "raised"

(***************************************************************************)
(* Properties of the API object (SpecDocs)                                 *)
(***************************************************************************)
\* The registrations of a path, oldest first, as positions of the history.
RegistrationsOf(path) == { i \in DOMAIN regLog : regLog[i].path = path }

\* The handler of the most recent registration of a path.
LatestRegistered(path) ==
    regLog[CHOOSE i \in RegistrationsOf(path) :
              \A j \in RegistrationsOf(path) : j <= i].handler

\* C22: a registration of a path that is already registered replaces the
\* earlier handler without an error: the route table holds, for every path, the
\* handler of the most recent registration of that path, no registration has
\* raised, and a request for a registered path has been dispatched to that most
\* recently registered handler.
C22_LastRegistrationWins ==
    /\ DOMAIN routes = { regLog[i].path : i \in DOMAIN regLog }
    /\ \A path \in DOMAIN routes : routes[path] = LatestRegistered(path)
    /\ \A i \in DOMAIN regLog : ~regLog[i].raised
    /\ (served > 0 /\ lastReq.path \in DOMAIN routes) =>
          /\ lastReq.handler = << LatestRegistered(lastReq.path) >>
          /\ lastReq.result = Invoke(LatestRegistered(lastReq.path), "none",
                                     lastReq.fanBefore).result

\* The DHT22 named "docs" has replaced the documentation handler that
\* API.__init__ registered, and a request for /docs has been answered by it.
C22_Witness ==
    /\ Cardinality(RegistrationsOf(<< "docs" >>)) = 2
    /\ served > 0
    /\ lastReq.path = << "docs" >>
    /\ lastReq.handler = << Handler("docs", "data", <<>>) >>
    /\ lastReq.result = "dict"

\* The paths of the endpoint items of the documentation text.
DocumentedPaths == { docText[k].path : k \in { j \in DOMAIN docText :
                                                  docText[j].item = "endpoint" } }

C23Step ==
    docIo => /\ docIo'
             /\ docText' = docText

C26_VirtualOnOffSwitchesState ==
    (sd.kind = "VirtualToggleButton" /\ lastOp.op \in { "on", "off" }) =>
        /\ lastOp.outcome = "returned"
        /\ lastOp.value = lastOp.op
        /\ sd.state = lastOp.op

\* C27: after a MomentaryButton has detected a state change its loop goes on to
\* the debounce sleep and to the next poll: the poll that changed the state has
\* not ended the task of the loop.
C27_DebounceAfterChange ==
    (sd.kind = "MomentaryButton" /\ lastOp.op = "poll"
        /\ lastOp.value # lastOp.before) => sdTask \notin Ended

\* The keys the configuration document reserves for its sections.
SectionKeys == { "network", "actions", "chains", "context", "events" }

\* C29: no reserved top-level key (network, actions, chains, context, events)
\* is treated as a device declaration: none is looked up as a device entry or
\* passed to a device factory, and none is a name of the device registry.
C29_ReservedKeysAreNoDevices ==
    /\ \A i \in DOMAIN declared :
          declared[i].name \in SectionKeys => declared[i].type = Skipped
    /\ DOMAIN devices \cap SectionKeys = {}

\* C30: once the devices of the configuration have been constructed and
\* filtered, and so after startup, the registry contains the built-in heartbeat
\* device _OnboardLED, whichever configured devices failed to construct.
C30_OnboardLedAlwaysRegistered ==
    pc \in { "chains", "events", "done" } =>
        /\ "_OnboardLED" \in DOMAIN devices
        /\ devices["_OnboardLED"] = "OnboardLED"
        /\ \A i \in DOMAIN declared :
              declared[i].raised => declared[i].name \notin DOMAIN devices

\* Startup has completed although every configured device failed to construct:
\* the heartbeat LED is the only device of the registry.
C30_Witness ==
    /\ pc = "done"
    /\ Len(declared) = MaxEntries
    /\ \A i \in DOMAIN declared : declared[i].raised
    /\ DOMAIN devices = { "_OnboardLED" }

\* C31: a chain that compiled (every step resolved) is registered as a route
\* if and only if a network section is configured; with no network section the
\* route table holds no chain route at all.
C31_ChainRouteIffNetwork ==
    /\ \A i \in DOMAIN chains :
          chains[i].resolved => (ChainRoute(i) \in DOMAIN routes <=> network)
    /\ ~network => \A path \in DOMAIN routes : path[1] # "chain"

\* Startup has completed without a network section, and a chain whose steps
\* all resolved has no route.
C31_Witness ==
    /\ pc = "done"
    /\ ~network
    /\ \E i \in DOMAIN chains :
          /\ chains[i].resolved
          /\ ChainRoute(i) \notin DOMAIN routes

\* C32: for any speed v that Fan.set has stored, off() then on() restores the
\* PWM duty cycle to the value set(v) wrote: off() leaves the stored speed as it
\* is and writes the stopped duty, and on() writes the duty of the stored speed.
C32_OffThenOnRestoresDuty ==
    \A i \in DOMAIN calls :
        (i + 2 \in DOMAIN calls /\ calls[i].op = "set" /\ ~calls[i].raised
           /\ calls[i+1].op = "off" /\ calls[i+2].op = "on") =>
            /\ calls[i].fan.speed = IntOf(calls[i].value)
            /\ calls[i+1].fan.speed = calls[i].fan.speed
            /\ calls[i+1].fan.duty = MaxDutyCycle
            /\ calls[i+2].fan = calls[i].fan
            /\ ~calls[i+1].raised /\ ~calls[i+2].raised

\* set(50), off(), on(): the duty is back at half of the maximum.
C32_Witness ==
    /\ Len(calls) >= 3
    /\ calls[1].op = "set" /\ calls[1].value = "50"
    /\ calls[2].op = "off" /\ calls[3].op = "on"
    /\ calls[2].fan.duty # calls[1].fan.duty
    /\ fan.duty = 32765

\* C33: a call of CCS811.mode with mode 4 fails with an error at the call and
\* writes nothing to the measurement-mode register of the sensor, which keeps
\* the value it had.
C33_ModeFourRaisesAndWritesNothing ==
    \A i \in DOMAIN calls :
        (calls[i].op = "mode" /\ calls[i].given /\ calls[i].value = 4) =>
            /\ calls[i].raised
            /\ ~calls[i].wrote
            /\ (i = Len(calls) => meas = calls[i].before)
            /\ (i < Len(calls) => calls[i+1].before = calls[i].before)

\* mode(2) has put the sensor in drive mode 2, then mode(4) was called.
C33_Witness ==
    /\ Len(calls) >= 2
    /\ calls[1].given /\ calls[1].value = 2 /\ calls[1].wrote
    /\ calls[2].given /\ calls[2].value = 4 /\ calls[2].raised
    /\ meas = 32

\* C34: after startup, a device whose construction failed has no endpoint
\* group and no route whose path begins with its name.
C34_FailedDeviceLeavesNothing ==
    pc = "done" =>
        \A i \in Declared :
            declared[i].raised =>
                /\ declared[i].name \notin groups
                /\ \A path \in DOMAIN routes : path[1] # declared[i].name

C36Step ==
    (sd.kind = "ToggleButton" /\ sdTask = "ready" /\ sdTask' # "ready") =>
        /\ sd'.state = (IF PinValue(pins, 1) = 1 THEN "on" ELSE "off")
        /\ sd'.aux = PinValue(pins, 1)
        /\ lastOp'.op = "poll"
        /\ lastOp'.value = sd'.state

\* C36: after every poll of a ToggleButton its state is "on" if the value of
\* the input pin sampled in that poll is high, and "off" if it is low.
C36_ToggleButtonFollowsPin == [][C36Step]_vars

\* A ToggleButton constructed with its input low has been polled with the
\* input high.
C36_Witness ==
    /\ sd.kind = "ToggleButton"
    /\ lastOp.op = "poll"
    /\ lastOp.before = "off"
    /\ sd.state = "on"
    /\ sd.aux = 1

\* A step of a MomentaryButton in toggle mode.
C37Step ==
    (sd.kind = "MomentaryButton" /\ sd.aux = 1) =>
        /\ sd'.state # sd.state =>
              /\ PinValue(pins, 1) = 1
              /\ sd'.state = Flip(sd.state)
              /\ sdTask' \notin Ended
        /\ PinValue(pins, 1) = 0 => sd'.state = sd.state

\* C37: a MomentaryButton in toggle mode changes state only at a poll with its
\* input high; such a poll toggles the state once and the loop goes on, to the
\* actions bound to the new state and to the next poll, which toggles again
\* while the input is held; with the input low the state never changes.
C37_HeldPressTogglesEveryPoll == [][C37Step]_vars

\* The states of the pins that are active, for the mapping
\* {"low": 1, "high": 2, "stop": "off"}.
ActiveStates(p) == { st \in { "low", "high" } :
                       PinValue(p, IF st = "low" THEN 1 ELSE 2) = 1 }

\* A step in which manage_state of the Switch has run: a poll of its loop or
\* an invocation of the method.
ManageRan ==
    /\ sd.kind = "Switch"
    /\ lastOp' # lastOp
    /\ lastOp'.op \in { "poll", "manage_state" }

C38Step ==
    ManageRan =>
        /\ sd'.state \in { "low", "high", "stop" }
        /\ \A st \in { "low", "high" } : ActiveStates(pins) = { st } => sd'.state = st
        /\ ActiveStates(pins) = {} => sd'.state = "stop"

\* C38: after each Switch.manage_state the state is a key of the configured
\* state_pin_mapping: the state of the one active pin if exactly one mapped pin
\* is active, and the state mapped to off if no pin is active.
C38_SwitchStateFollowsPins == [][C38Step]_vars

\* The Switch in state "low" has run manage_state with only the pin of "high"
\* active.
C38_Witness ==
    /\ sd.kind = "Switch"
    /\ lastOp.op = "manage_state"
    /\ lastOp.before = "low"
    /\ lastOp.pins = 2
    /\ pins = 2
    /\ sd.state = "high"

C39Step ==
    (sd.kind = "Switch" /\ lastOp.op = "manage_state" /\ lastOp.pins = pins
        /\ pins' = pins) => sd'.state = sd.state

\* C39: the state of a Switch is stable under stable inputs: when manage_state
\* runs again with the pin values it sampled the time before, it does not
\* change the state.
C39_SwitchStableUnderStableInputs == [][C39Step]_vars

\* C40: a route registered through API.route is in the route table whether
\* show_docs is set or not; only the documentation depends on the flag.
C40_ApiRouteRegistersWithoutDocs ==
    \A i \in DOMAIN calls :
        (calls[i].op = "route" /\ calls[i].via = "api") =>
            calls[i].path \in DOMAIN routes

====
